---- MODULE Spec2Model ----
(***************************************************************************)
(* Realtime session hub of anokoro-tcg-backend: session table, matchmaking *)
(* queue, match coordinator and Elo update, in the deployment variants     *)
(* found under src/ (part_006, part_001, part_003, index.js).              *)
(*                                                                         *)
(* Every 'message' handler is an async function: it runs synchronously up  *)
(* to its next await and is suspended there.  A handler in flight is a     *)
(* record of `handlers'; one step of a handler performs the store call it  *)
(* is suspended on and the synchronous code that follows it, up to the    *)
(* next await.  Steps of different handlers interleave freely.             *)
(***************************************************************************)
EXTENDS Integers, Sequences, FiniteSets, TLC

VARIABLES
    wsCount,        \* number of connections accepted so far (wsId = uuidv4(), never reused)
    wsIdToWs,       \* set of wsIds of live connections (keys of wsIdToWs / connections)
    readyState,     \* wsId -> "OPEN" | "CLOSING" (ws.readyState of a live socket)
    connections,    \* wsId -> session object {userId, username, matchId, opponentWsId}
    userToWsId,     \* userId -> wsId, NoWs when absent
    waitingPlayers, \* the queue, a sequence of userIds
    users,          \* store: users table, userId -> row
    matches,        \* store: matches table, matchId -> row (domain = inserted rows)
    matchCount,     \* number of matchIds minted so far (uuidv4())
    handlers,       \* slot -> async handler in flight (Idle when free)
    sent,           \* messages sent by the last step, a set of <<wsId, message>>
                    \* (the queue_count_update broadcast is not recorded)
    frames,         \* number of frames the clients may still send
    elo,            \* inputs and outputs of the rate computation (SpecElo)
    spectateRooms,  \* roomId -> room, for every roomId minted so far (part_006)
    cancelled       \* users sent the leave_queue acknowledgement who have not sent
                    \* join_queue since

vars == <<wsCount, wsIdToWs, readyState, connections, userToWsId, waitingPlayers,
          users, matches, matchCount, handlers, sent, frames, elo, spectateRooms,
          cancelled>>

----------------------------------------------------------------------------
(* Bounds of the model *)

MaxMatches == 2
\* connections accepted, handlers that can be in flight at once, and frames received,
\* per specification
NumConns == 2
SessionSlots == 2
SessionFrames == 4
MatchSlots == 1
MatchFrames == 7
ReportSlots == 2
ReportFrames == 7
QueueSlots == 1
QueueFrames == 5
FifoConns == 3
FifoSlots == 2
FifoFrames == 4
SignalSlots == 1
SignalFrames == 4
MaxRooms == 2
SpectateConns == 3
SpectateSlots == 1
SpectateFrames == 4
NamesSlots == 2
NamesFrames == 3
ProfileSlots == 2
ProfileFrames == 2
TakeoverConns == 3
TakeoverSlots == 2
TakeoverFrames == 3
LoginSlots == 2
LoginFrames == 4
IndexSlots == 1
IndexFrames == 7
\* distance between the two initial rates of SpecIndex
RateGap == 200
\* range of player 1's rate in SpecElo
EloLo == 700
EloHi == 2300

(* Program constants *)

NoWs == 0
NoMatch == 0
K == 32
InitialRate == 1500
\* entries kept in a match history (slice(0, 10))
HistoryCap == 10

NoUser == "none"
NoReport == "null"
Users == {"alice", "bob", "cara"}
Results == {"win", "lose", "cancel"}
WsIds == DOMAIN connections
Slots == DOMAIN handlers

----------------------------------------------------------------------------
(* Elo: Math.round(K * (score - 1 / (1 + Math.pow(10, D / 400)))).          *)
(* RoundThreshold[n+1] is the least integer D with                          *)
(* K / (1 + 10^(D/400)) <= n + 1/2, n = 0..31; no integer D gives equality. *)

RoundThreshold ==
    << 720, 524, 429, 365, 315, 274, 238, 206, 177, 150, 125, 101, 78, 55, 33, 11,
       -10, -32, -54, -77, -100, -124, -149, -176, -205, -237, -273, -314, -364,
       -428, -523, -719 >>

\* ceil(K * expectedScore - 1/2) for D = opponentRate - playerRate
CeilExpected(D) == Cardinality({n \in 1..K : D < RoundThreshold[n]})

\* Math.round(K * (actualScore - expectedScore)); score2 = 2 * actualScore
RoundedChange(score2, D) == (K * score2) \div 2 - CeilExpected(D)

----------------------------------------------------------------------------
(* Shared helpers: sockets, handler slots, store rows *)

BlankSession ==
    [userId |-> NoUser, username |-> NoUser, matchId |-> NoMatch, opponentWsId |-> NoWs]

Idle == [type |-> "idle"]

UserRow(u, r) ==
    [user_id |-> u, username |-> u, rate |-> r, match_history |-> <<>>,
     current_match_id |-> NoMatch]

MatchRow(p1, p2) ==
    [player1_id |-> p1, player2_id |-> p2, player1_report |-> NoReport,
     player2_report |-> NoReport, resolved_at |-> FALSE]

\* ws.readyState === WebSocket.OPEN for the socket found under wsId, if any
IsOpen(live, rs, w) == w \in live /\ rs[w] = "OPEN"

\* ws.send(msg): delivered only on a live, open socket
Send(snt, w, msg) ==
    IF IsOpen(wsIdToWs, readyState, w) THEN snt \cup {<<w, msg>>} ELSE snt

\* Array.prototype.filter(id => id !== u)
RECURSIVE Without(_, _)
Without(q, u) ==
    IF q = <<>> THEN <<>>
    ELSE IF Head(q) = u THEN Without(Tail(q), u)
    ELSE <<Head(q)>> \o Without(Tail(q), u)

\* Array.prototype.includes
Includes(q, u) == \E i \in 1..Len(q) : q[i] = u

InFlight == Cardinality({s \in Slots : handlers[s] # Idle})
HasFreeSlot == \E s \in Slots : handlers[s] = Idle
FreeSlot == CHOOSE s \in Slots : handlers[s] = Idle /\ \A t \in 1..(s - 1) : handlers[t] # Idle

Spawn(h) == [handlers EXCEPT ![FreeSlot] = h]
Finish(s) == [handlers EXCEPT ![s] = Idle]
Goto(s, h) == [handlers EXCEPT ![s] = h]

\* supabase.from('users').select('user_id').eq('username', name).single()
getUserIdByUsername(name) ==
    IF \E u \in DOMAIN users : users[u].username = name
    THEN CHOOSE u \in DOMAIN users : users[u].username = name
    ELSE NoUser

\* supabase.from('users').select('*').eq('user_id', userId).single()
getUserData(userId) == users[userId]

MatchExists(m) == m \in DOMAIN matches

Profile(type, row) ==
    [type |-> type, success |-> TRUE, userId |-> row.user_id, rate |-> row.rate,
     currentMatchId |-> row.current_match_id]

InitStore(rates) ==
    /\ users = [u \in Users |-> UserRow(u, rates[u])]
    /\ matches = << >>
    /\ matchCount = 0

InitMemory(conns, slots, budget) ==
    /\ wsCount = 0
    /\ wsIdToWs = {}
    /\ readyState = [w \in 1..conns |-> "OPEN"]
    /\ connections = [w \in 1..conns |-> BlankSession]
    /\ userToWsId = [u \in Users |-> NoWs]
    /\ waitingPlayers = <<>>
    /\ handlers = [s \in 1..slots |-> Idle]
    /\ sent = {}
    /\ frames = budget
    /\ spectateRooms = << >>
    /\ cancelled = {}

\* the rate computation has not been run
NoElo ==
    [r1 |-> 0, r2 |-> 0, p1 |-> NoReport, p2 |-> NoReport, n1 |-> 0, n2 |-> 0,
     computed |-> FALSE]

----------------------------------------------------------------------------
(* part_006: the spectate-capable hub *)

\* wss.on('connection')
P6_Connection ==
    /\ wsCount + 1 \in WsIds
    /\ wsCount' = wsCount + 1
    /\ wsIdToWs' = wsIdToWs \cup {wsCount + 1}
    /\ connections' = [connections EXCEPT ![wsCount + 1] = BlankSession]
    /\ sent' = {}
    /\ UNCHANGED <<readyState, userToWsId, waitingPlayers, users, matches, matchCount, handlers, frames, elo>>
    /\ UNCHANGED <<spectateRooms, cancelled>>

\* A frame can arrive on a live socket while the frame budget lasts
Receives(w) == w \in wsIdToWs /\ frames > 0

\* case 'login': up to the first await (getUserIdByUsername)
P6_Login(w, loginUsername, passwordOk) ==
    /\ Receives(w)
    /\ frames' = frames - 1 /\ HasFreeSlot
    /\ handlers' = Spawn([type |-> "login", ws |-> w, pc |-> "getUserIdByUsername",
                          loginUsername |-> loginUsername, passwordOk |-> passwordOk])
    /\ sent' = {}
    /\ UNCHANGED <<wsCount, wsIdToWs, readyState, connections, userToWsId, waitingPlayers, users, matches, matchCount, elo>>
    /\ UNCHANGED <<spectateRooms, cancelled>>

\* case 'auto_login': up to the first await (getUserData)
P6_AutoLogin(w, loginUserId, loginUsername) ==
    /\ Receives(w)
    /\ frames' = frames - 1 /\ HasFreeSlot
    /\ handlers' = Spawn([type |-> "auto_login", ws |-> w, pc |-> "getUserData",
                          loginUserId |-> loginUserId, loginUsername |-> loginUsername])
    /\ sent' = {}
    /\ UNCHANGED <<wsCount, wsIdToWs, readyState, connections, userToWsId, waitingPlayers, users, matches, matchCount, elo>>
    /\ UNCHANGED <<spectateRooms, cancelled>>

LoginFailed(s) ==
    /\ sent' = Send({}, handlers[s].ws,
                    [type |-> handlers[s].type \o "_response", success |-> FALSE])
    /\ handlers' = Finish(s)
    /\ UNCHANGED <<connections, userToWsId>>

\* conn.userId = userData.user_id; conn.username = ...; userToWsId.set(conn.userId, wsId);
\* ws.send(success)
P6_Bind(s, userData) ==
    LET w == handlers[s].ws IN
    /\ connections' = [connections EXCEPT ![w].userId = userData.user_id,
                                          ![w].username = userData.username]
    /\ userToWsId' = [userToWsId EXCEPT ![userData.user_id] = w]
    /\ sent' = Send({}, w, Profile(handlers[s].type \o "_response", userData))
    /\ handlers' = Finish(s)

\* the login / auto_login handler resumes after an await
P6_LoginStep(s) ==
    LET h == handlers[s] IN
    /\ h.type \in {"login", "auto_login"}
    /\ \/ /\ h.pc = "getUserIdByUsername"
          /\ LET foundUserId == getUserIdByUsername(h.loginUsername) IN
             IF foundUserId = NoUser THEN LoginFailed(s)
             ELSE /\ handlers' = Goto(s, [h EXCEPT !.pc = "getUserData"] @@
                                         [foundUserId |-> foundUserId])
                  /\ sent' = {}
                  /\ UNCHANGED <<connections, userToWsId>>
       \/ /\ h.pc = "getUserData" /\ h.type = "login"
          /\ handlers' = Goto(s, [h EXCEPT !.pc = "compare"] @@
                                 [userData |-> getUserData(h.foundUserId)])
          /\ sent' = {}
          /\ UNCHANGED <<connections, userToWsId>>
       \/ /\ h.pc = "compare"
          /\ IF h.passwordOk THEN P6_Bind(s, h.userData) ELSE LoginFailed(s)
       \/ /\ h.pc = "getUserData" /\ h.type = "auto_login"
          /\ LET userData == getUserData(h.loginUserId) IN
             IF userData.username # h.loginUsername THEN LoginFailed(s)
             ELSE P6_Bind(s, userData)
    /\ UNCHANGED <<wsCount, wsIdToWs, readyState, waitingPlayers, users, matches,
                   matchCount, frames, elo>>
    /\ UNCHANGED <<spectateRooms, cancelled>>

\* case 'logout'
P6_Logout(w) ==
    /\ Receives(w)
    /\ frames' = frames - 1
    /\ IF connections[w].userId # NoUser
       THEN /\ userToWsId' = [userToWsId EXCEPT ![connections[w].userId] = NoWs]
            /\ connections' = [connections EXCEPT ![w].userId = NoUser,
                                                  ![w].username = NoUser]
            /\ sent' = Send({}, w, [type |-> "logout_response", success |-> TRUE])
       ELSE /\ sent' = {}
            /\ UNCHANGED <<userToWsId, connections>>
    /\ UNCHANGED <<wsCount, wsIdToWs, readyState, waitingPlayers, users, matches,
                   matchCount, handlers, elo>>
    /\ UNCHANGED <<spectateRooms, cancelled>>

\* tryMatchPlayers() taking its two players from the back of the queue (pop for shift);
\* the first-come pairing C16 does not hold of it
P6_tryMatchPlayersFromBack(q, snt) ==
    IF Len(q) < 2
    THEN /\ waitingPlayers' = q
         /\ sent' = snt
         /\ UNCHANGED <<connections, matchCount, handlers>>
    ELSE LET player1Id == q[Len(q)]
             player2Id == q[Len(q) - 1]
             rest == SubSeq(q, 1, Len(q) - 2)
             ws1Id == userToWsId[player1Id]
             ws2Id == userToWsId[player2Id]
             open1 == IsOpen(wsIdToWs, readyState, ws1Id)
             open2 == IsOpen(wsIdToWs, readyState, ws2Id)
             matchId == matchCount + 1
         IN  IF open1 /\ open2
             THEN /\ matchCount < MaxMatches
                  /\ HasFreeSlot
                  /\ matchCount' = matchId
                  /\ connections' = [connections EXCEPT ![ws1Id].matchId = matchId,
                                                        ![ws1Id].opponentWsId = ws2Id,
                                                        ![ws2Id].matchId = matchId,
                                                        ![ws2Id].opponentWsId = ws1Id]
                  /\ waitingPlayers' = rest
                  /\ handlers' = Spawn([type |-> "tryMatchPlayers", pc |-> "updateUserData1",
                                        player1Id |-> player1Id, player2Id |-> player2Id,
                                        ws1Id |-> ws1Id, ws2Id |-> ws2Id, matchId |-> matchId])
                  /\ sent' = snt
             ELSE /\ waitingPlayers' = rest \o (IF open2 THEN <<player2Id>> ELSE <<>>) \o
                                       (IF open1 THEN <<player1Id>> ELSE <<>>)
                  /\ sent' = snt
                  /\ UNCHANGED <<connections, matchCount, handlers>>

\* tryMatchPlayers(), from its call up to its first await; q is the queue at the call
P6_tryMatchPlayers(q, snt) ==
    IF Len(q) < 2
    THEN /\ waitingPlayers' = q
         /\ sent' = snt
         /\ UNCHANGED <<connections, matchCount, handlers>>
    ELSE LET player1Id == q[1]
             player2Id == q[2]
             rest == SubSeq(q, 3, Len(q))
             ws1Id == userToWsId[player1Id]
             ws2Id == userToWsId[player2Id]
             open1 == IsOpen(wsIdToWs, readyState, ws1Id)
             open2 == IsOpen(wsIdToWs, readyState, ws2Id)
             matchId == matchCount + 1
         IN  IF open1 /\ open2
             THEN /\ matchCount < MaxMatches
                  /\ HasFreeSlot
                  /\ matchCount' = matchId
                  /\ connections' = [connections EXCEPT ![ws1Id].matchId = matchId,
                                                        ![ws1Id].opponentWsId = ws2Id,
                                                        ![ws2Id].matchId = matchId,
                                                        ![ws2Id].opponentWsId = ws1Id]
                  /\ waitingPlayers' = rest
                  /\ handlers' = Spawn([type |-> "tryMatchPlayers", pc |-> "updateUserData1",
                                        player1Id |-> player1Id, player2Id |-> player2Id,
                                        ws1Id |-> ws1Id, ws2Id |-> ws2Id, matchId |-> matchId])
                  /\ sent' = snt
             ELSE /\ waitingPlayers' = (IF open2 THEN <<player2Id>> ELSE <<>>) \o
                                       (IF open1 THEN <<player1Id>> ELSE <<>>) \o rest
                  /\ sent' = snt
                  /\ UNCHANGED <<connections, matchCount, handlers>>

\* tryMatchPlayers() telling both players isInitiator: true; C17 does not hold of it
P6_tryMatchPlayersStepBothInitiate(s) ==
    LET h == handlers[s] IN
    /\ h.type = "tryMatchPlayers"
    /\ \/ /\ h.pc = "updateUserData1"
          /\ users' = [users EXCEPT ![h.player1Id].current_match_id = h.matchId]
          /\ handlers' = Goto(s, [h EXCEPT !.pc = "updateUserData2"])
          /\ sent' = {}
          /\ UNCHANGED matches
       \/ /\ h.pc = "updateUserData2"
          /\ users' = [users EXCEPT ![h.player2Id].current_match_id = h.matchId]
          /\ handlers' = Goto(s, [h EXCEPT !.pc = "insert"])
          /\ sent' = {}
          /\ UNCHANGED matches
       \/ /\ h.pc \in {"updateUserData1", "updateUserData2"}
          \* updateUserData throws the store's error: the call ends here
          /\ handlers' = Finish(s)
          /\ sent' = {}
          /\ UNCHANGED <<users, matches>>
       \/ /\ h.pc = "insert"
          \* the error of insert() is not looked at
          /\ \/ matches' = matches @@ (h.matchId :> MatchRow(h.player1Id, h.player2Id))
             \/ matches' = matches
          /\ sent' = Send(Send({}, h.ws1Id,
                               [type |-> "match_found", matchId |-> h.matchId,
                                opponentUserId |-> h.player2Id,
                                opponentUsername |-> connections[h.ws2Id].username,
                                isInitiator |-> TRUE]),
                          h.ws2Id,
                          [type |-> "match_found", matchId |-> h.matchId,
                           opponentUserId |-> h.player1Id,
                           opponentUsername |-> connections[h.ws1Id].username,
                           isInitiator |-> TRUE])
          /\ handlers' = Finish(s)
          /\ UNCHANGED users
    /\ UNCHANGED <<wsCount, wsIdToWs, readyState, connections, userToWsId, waitingPlayers,
                   matchCount, frames, elo>>
    /\ UNCHANGED <<spectateRooms, cancelled>>

\* tryMatchPlayers() resumes after an await
P6_tryMatchPlayersStep(s) ==
    LET h == handlers[s] IN
    /\ h.type = "tryMatchPlayers"
    /\ \/ /\ h.pc = "updateUserData1"
          /\ users' = [users EXCEPT ![h.player1Id].current_match_id = h.matchId]
          /\ handlers' = Goto(s, [h EXCEPT !.pc = "updateUserData2"])
          /\ sent' = {}
          /\ UNCHANGED matches
       \/ /\ h.pc = "updateUserData2"
          /\ users' = [users EXCEPT ![h.player2Id].current_match_id = h.matchId]
          /\ handlers' = Goto(s, [h EXCEPT !.pc = "insert"])
          /\ sent' = {}
          /\ UNCHANGED matches
       \/ /\ h.pc \in {"updateUserData1", "updateUserData2"}
          \* updateUserData throws the store's error: the call ends here
          /\ handlers' = Finish(s)
          /\ sent' = {}
          /\ UNCHANGED <<users, matches>>
       \/ /\ h.pc = "insert"
          \* the error of insert() is not looked at
          /\ \/ matches' = matches @@ (h.matchId :> MatchRow(h.player1Id, h.player2Id))
             \/ matches' = matches
          /\ sent' = Send(Send({}, h.ws1Id,
                               [type |-> "match_found", matchId |-> h.matchId,
                                opponentUserId |-> h.player2Id,
                                opponentUsername |-> connections[h.ws2Id].username,
                                isInitiator |-> TRUE]),
                          h.ws2Id,
                          [type |-> "match_found", matchId |-> h.matchId,
                           opponentUserId |-> h.player1Id,
                           opponentUsername |-> connections[h.ws1Id].username,
                           isInitiator |-> FALSE])
          /\ handlers' = Finish(s)
          /\ UNCHANGED users
    /\ UNCHANGED <<wsCount, wsIdToWs, readyState, connections, userToWsId, waitingPlayers,
                   matchCount, frames, elo>>
    /\ UNCHANGED <<spectateRooms, cancelled>>

\* the user of connection w has sent join_queue: no longer counted as having left
Rejoined(w) == cancelled \ {connections[w].userId}

\* the leave_queue acknowledgement (queue_status, cancelled) went to the user of w
Acknowledged(w) ==
    IF connections[w].userId # NoUser /\ \E x \in sent' : x[1] = w /\ x[2].type = "queue_status"
    THEN cancelled \cup {connections[w].userId}
    ELSE cancelled

\* case 'join_queue'
P6_JoinQueue(w) ==
    /\ Receives(w)
    /\ frames' = frames - 1
    /\ IF connections[w].userId # NoUser /\ ~Includes(waitingPlayers, connections[w].userId)
       THEN P6_tryMatchPlayers(Append(waitingPlayers, connections[w].userId),
                               Send({}, w, [type |-> "queue_status", message |-> "searching"]))
       ELSE /\ sent' = {}
            /\ UNCHANGED <<waitingPlayers, connections, matchCount, handlers>>
    /\ UNCHANGED <<wsCount, wsIdToWs, readyState, userToWsId, users, matches, elo>>
    /\ UNCHANGED spectateRooms
    /\ cancelled' = Rejoined(w)

\* case 'leave_queue'
P6_LeaveQueue(w) ==
    /\ Receives(w)
    /\ frames' = frames - 1
    /\ waitingPlayers' = Without(waitingPlayers, connections[w].userId)
    /\ sent' = Send({}, w, [type |-> "queue_status", message |-> "cancelled"])
    /\ UNCHANGED <<wsCount, wsIdToWs, readyState, connections, userToWsId, users, matches,
                   matchCount, handlers, elo>>
    /\ UNCHANGED spectateRooms
    /\ cancelled' = Acknowledged(w)

\* the list of broadcastListUpdate(): roomId and broadcasterUsername of every room
BroadcastList(rooms) ==
    {[roomId |-> r, broadcasterUsername |-> rooms[r].broadcasterUsername] :
        r \in {x \in DOMAIN rooms : rooms[x].open}}

\* broadcastListUpdate() that skips the clients that are not logged in; C25 does not hold
\* of it
broadcastListUpdateToUsers(rooms, clients) ==
    {<<c, [type |-> "broadcast_list_update", list |-> BroadcastList(rooms)]>> :
        c \in {x \in clients : readyState[x] = "OPEN" /\ connections[x].userId # NoUser}}

\* broadcastListUpdate(): the list goes to every open client
broadcastListUpdate(rooms, clients) ==
    {<<c, [type |-> "broadcast_list_update", list |-> BroadcastList(rooms)]>> :
        c \in {x \in clients : readyState[x] = "OPEN"}}

\* spectateRooms.get(roomId) finds a room
HasRoom(roomId) == roomId \in DOMAIN spectateRooms /\ spectateRooms[roomId].open

\* the slot of a roomId whose room has been deleted
NoRoom == [open |-> FALSE, broadcasterWsId |-> NoWs, broadcasterUsername |-> NoUser,
           spectators |-> {}]

\* ws.on('close'); the closing socket itself is past receiving anything
P6_Close(w) ==
    /\ w \in wsIdToWs
    /\ LET owned == {r \in DOMAIN spectateRooms : HasRoom(r) /\
                                                  spectateRooms[r].broadcasterWsId = w}
           watched == {r \in DOMAIN spectateRooms : HasRoom(r) /\ r \notin owned /\
                                                    w \in spectateRooms[r].spectators}
           \* forEach overwrites roomToDelete: the room the socket opened last
           roomToDelete == IF owned = {} THEN 0
                           ELSE CHOOSE r \in owned : \A o \in owned : o <= r
           left == {<<spectateRooms[r].broadcasterWsId,
                      [type |-> "spectator_left", spectatorId |-> w]>> : r \in watched}
           stopped == IF roomToDelete = 0 THEN {}
                      ELSE {<<sp, [type |-> "broadcast_stopped", roomId |-> roomToDelete]>> :
                               sp \in spectateRooms[roomToDelete].spectators}
       IN /\ spectateRooms' = [r \in DOMAIN spectateRooms |->
                                 IF r = roomToDelete THEN NoRoom
                                 ELSE IF r \in watched
                                 THEN [spectateRooms[r] EXCEPT !.spectators = @ \ {w}]
                                 ELSE spectateRooms[r]]
          /\ sent' = {x \in left \cup stopped :
                         x[1] # w /\ IsOpen(wsIdToWs, readyState, x[1])}
                      \cup (IF roomToDelete = 0 THEN {}
                            ELSE broadcastListUpdate(spectateRooms', wsIdToWs \ {w}))
    /\ IF connections[w].userId # NoUser
       THEN /\ userToWsId' = IF userToWsId[connections[w].userId] = w
                             THEN [userToWsId EXCEPT ![connections[w].userId] = NoWs]
                             ELSE userToWsId
            /\ waitingPlayers' = Without(waitingPlayers, connections[w].userId)
       ELSE UNCHANGED <<userToWsId, waitingPlayers>>
    /\ wsIdToWs' = wsIdToWs \ {w}
    /\ UNCHANGED <<wsCount, readyState, connections, users, matches, matchCount, handlers, frames, elo>>
    /\ UNCHANGED cancelled

\* the rate computation with p2_expected taken for p1_expected (the exponent of
\* p2_expected not reversed); the zero-sum property C10 does not hold of it
P6_NewRatesSameExpected(rate1, rate2, p1_result, p2_result) ==
    IF (p1_result = "win" /\ p2_result = "lose") \/ (p1_result = "lose" /\ p2_result = "win")
    THEN << rate1 + RoundedChange(IF p1_result = "win" THEN 2 ELSE 0, rate2 - rate1),
            rate2 + RoundedChange(IF p2_result = "win" THEN 2 ELSE 0, rate2 - rate1) >>
    ELSE << rate1, rate2 >>

\* part_006 report_result: p1_newRate, p2_newRate (Math.round(rate + K * (score - expected)))
P6_NewRates(rate1, rate2, p1_result, p2_result) ==
    IF (p1_result = "win" /\ p2_result = "lose") \/ (p1_result = "lose" /\ p2_result = "win")
    THEN << rate1 + RoundedChange(IF p1_result = "win" THEN 2 ELSE 0, rate2 - rate1),
            rate2 + RoundedChange(IF p2_result = "win" THEN 2 ELSE 0, rate1 - rate2) >>
    ELSE << rate1, rate2 >>

\* case 'report_result': up to the first await (select of the match row)
P6_ReportResult(w, reportedMatchId, reportedResult) ==
    /\ Receives(w)
    /\ frames' = frames - 1
    /\ IF connections[w].userId = NoUser
       THEN UNCHANGED handlers
       ELSE /\ HasFreeSlot
            /\ handlers' = Spawn([type |-> "report_result", ws |-> w, pc |-> "select",
                                  reportedMatchId |-> reportedMatchId,
                                  reportedResult |-> reportedResult])
    /\ sent' = {}
    /\ UNCHANGED <<wsCount, wsIdToWs, readyState, connections, userToWsId, waitingPlayers, users, matches, matchCount, elo>>
    /\ UNCHANGED <<spectateRooms, cancelled>>

\* the report_result handler resumes after an await
P6_ReportResultStep(s) ==
    LET h == handlers[s]
        id == h.reportedMatchId
    IN
    /\ h.type = "report_result"
    /\ \/ /\ h.pc = "select"
          /\ IF ~MatchExists(id) THEN handlers' = Finish(s)
             ELSE handlers' = Goto(s, [h EXCEPT !.pc = "update"] @@
                       [match |-> matches[id],
                        isPlayer1 |-> (matches[id].player1_id = connections[h.ws].userId)])
          /\ sent' = {}
          /\ UNCHANGED <<users, matches>>
       \/ /\ h.pc = "update"
          /\ matches' = IF h.isPlayer1
                        THEN [matches EXCEPT ![id].player1_report = h.reportedResult]
                        ELSE [matches EXCEPT ![id].player2_report = h.reportedResult]
          /\ handlers' = Goto(s, [h EXCEPT !.pc = "reselect"])
          /\ sent' = {}
          /\ UNCHANGED users
       \/ /\ h.pc = "reselect"
          /\ LET updatedMatch == matches[id]
                 opponentReport == IF h.isPlayer1 THEN updatedMatch.player2_report
                                   ELSE updatedMatch.player1_report
             IN IF opponentReport # NoReport
                THEN /\ handlers' = Goto(s, [h EXCEPT !.pc = "getUserData1"] @@
                                            [updatedMatch |-> updatedMatch])
                     /\ sent' = {}
                ELSE /\ sent' = Send({}, h.ws, [type |-> "report_result_response",
                                                  success |-> TRUE, result |-> "pending"])
                     /\ handlers' = Finish(s)
          /\ UNCHANGED <<users, matches>>
       \/ /\ h.pc = "getUserData1"
          /\ handlers' = Goto(s, [h EXCEPT !.pc = "getUserData2"] @@
                                 [player1Data |-> getUserData(h.match.player1_id)])
          /\ sent' = {}
          /\ UNCHANGED <<users, matches>>
       \/ /\ h.pc = "getUserData2"
          /\ LET player1Data == h.player1Data
                 player2Data == getUserData(h.match.player2_id)
                 p1_result == h.updatedMatch.player1_report
                 p2_result == h.updatedMatch.player2_report
                 newRates == P6_NewRates(player1Data.rate, player2Data.rate,
                                         p1_result, p2_result)
             IN handlers' = Goto(s, [h EXCEPT !.pc = "updateUserData1"] @@
                   [p1_newRate |-> newRates[1], p2_newRate |-> newRates[2],
                    p1History |-> Append(player1Data.match_history,
                                         [vs |-> player2Data.username, result |-> p1_result,
                                          rate |-> newRates[1]]),
                    p2History |-> Append(player2Data.match_history,
                                         [vs |-> player1Data.username, result |-> p2_result,
                                          rate |-> newRates[2]])])
          /\ sent' = {}
          /\ UNCHANGED <<users, matches>>
       \/ /\ h.pc = "updateUserData1"
          /\ users' = [users EXCEPT ![h.match.player1_id].rate = h.p1_newRate,
                                    ![h.match.player1_id].current_match_id = NoMatch,
                                    ![h.match.player1_id].match_history = h.p1History]
          /\ handlers' = Goto(s, [h EXCEPT !.pc = "updateUserData2"])
          /\ sent' = {}
          /\ UNCHANGED matches
       \/ /\ h.pc = "updateUserData2"
          /\ users' = [users EXCEPT ![h.match.player2_id].rate = h.p2_newRate,
                                    ![h.match.player2_id].current_match_id = NoMatch,
                                    ![h.match.player2_id].match_history = h.p2History]
          /\ handlers' = Goto(s, [h EXCEPT !.pc = "resolve"])
          /\ sent' = {}
          /\ UNCHANGED matches
       \/ /\ h.pc = "resolve"
          /\ matches' = [matches EXCEPT ![id].resolved_at = TRUE]
          /\ sent' = Send(Send({}, userToWsId[h.match.player1_id],
                               [type |-> "report_result_response", success |-> TRUE,
                                result |-> "resolved", myNewRate |-> h.p1_newRate]),
                          userToWsId[h.match.player2_id],
                          [type |-> "report_result_response", success |-> TRUE,
                           result |-> "resolved", myNewRate |-> h.p2_newRate])
          /\ handlers' = Finish(s)
          /\ UNCHANGED users
    /\ UNCHANGED <<wsCount, wsIdToWs, readyState, connections, userToWsId, waitingPlayers,
                   matchCount, frames, elo>>
    /\ UNCHANGED <<spectateRooms, cancelled>>

Rates6 == {InitialRate}

Init6(slots, budget) ==
    /\ InitMemory(NumConns, slots, budget)
    /\ \E rates \in [Users -> Rates6] : InitStore(rates)
    /\ elo = NoElo

\* Session table and queue: login, auto_login, logout, join_queue, leave_queue, close
NextSession6 ==
    \/ P6_Connection
    \/ \E w \in WsIds, u \in Users, ok \in BOOLEAN : P6_Login(w, u, ok)
    \/ \E w \in WsIds, u \in Users, n \in Users : P6_AutoLogin(w, u, n)
    \/ \E w \in WsIds : P6_Logout(w)
    \/ \E w \in WsIds : P6_JoinQueue(w)
    \/ \E w \in WsIds : P6_LeaveQueue(w)
    \/ \E s \in Slots : P6_LoginStep(s)
    \/ \E s \in Slots : P6_tryMatchPlayersStep(s)
    \/ \E w \in WsIds : P6_Close(w)

SpecSession6 == Init6(SessionSlots, SessionFrames) /\ [][NextSession6]_vars

\* Match coordinator: pairing and report_result, one async handler at a time
NextMatch6 ==
    \/ P6_Connection
    \/ \E w \in WsIds, u \in Users : P6_AutoLogin(w, u, u)
    \/ \E w \in WsIds : P6_JoinQueue(w)
    \/ \E w \in WsIds, m \in 1..MaxMatches, r \in Results : P6_ReportResult(w, m, r)
    \/ \E s \in Slots : P6_LoginStep(s)
    \/ \E s \in Slots : P6_tryMatchPlayersStep(s)
    \/ \E s \in Slots : P6_ReportResultStep(s)

SpecMatch6 == Init6(MatchSlots, MatchFrames) /\ [][NextMatch6]_vars

----------------------------------------------------------------------------
(* Claims about part_006 *)

Bound(w, u) == w \in wsIdToWs /\ connections[w].userId = u

\* C1: for every user U, at most one live connection has a session bound to U
C1_OneLiveSessionPerUser ==
    \A u \in Users : Cardinality({w \in WsIds : Bound(w, u)}) <= 1

Players(m) == {matches[m].player1_id, matches[m].player2_id}

Reports(row) == <<row.player1_report, row.player2_report>>

\* C3: once resolved_at of a match is non-null, no step changes the match's two reports
\* or the rate or history of either player
C3_ResolvedMatchImmutable ==
    [][\A m \in DOMAIN matches :
         matches[m].resolved_at =>
            /\ Reports(matches'[m]) = Reports(matches[m])
            /\ \A p \in Players(m) :
                  /\ users'[p].rate = users[p].rate
                  /\ users'[p].match_history = users[p].match_history]_vars

\* C5: a close of connection C bound to U, while userToWsId[U] is another connection,
\* leaves userToWsId[U] and the waiting queue unchanged
C5_StaleCloseKeepsQueue ==
    [][\A w \in wsIdToWs :
         LET u == connections[w].userId IN
         (w \notin wsIdToWs' /\ u # NoUser /\ userToWsId[u] \notin {w, NoWs})
            => (userToWsId'[u] = userToWsId[u] /\ waitingPlayers' = waitingPlayers)]_vars

\* C6: a step of a report_result handler whose sender is bound to a user who is neither
\* player1 nor player2 of the reported match leaves the match's two reports unchanged
C6_NonPlayerReportRejected ==
    [][\A s \in Slots :
         LET h == handlers[s] IN
         (/\ h.type = "report_result"
          /\ MatchExists(h.reportedMatchId)
          /\ connections[h.ws].userId \notin Players(h.reportedMatchId) \cup {NoUser})
            => Reports(matches'[h.reportedMatchId]) = Reports(matches[h.reportedMatchId])]_vars

----------------------------------------------------------------------------
(* part_001: the reject-new-login hub *)

\* wss.on('connection')
P1_Connection ==
    /\ wsCount + 1 \in WsIds
    /\ wsCount' = wsCount + 1
    /\ wsIdToWs' = wsIdToWs \cup {wsCount + 1}
    /\ connections' = [connections EXCEPT ![wsCount + 1] = BlankSession]
    /\ sent' = {}
    /\ UNCHANGED <<readyState, userToWsId, waitingPlayers, users, matches, matchCount,
                   handlers, frames, elo>>
    /\ UNCHANGED <<spectateRooms, cancelled>>

\* case 'auto_login': up to the first await (getUserData)
P1_AutoLogin(w, autoLoginUserId, autoLoginUsername) ==
    /\ Receives(w) /\ HasFreeSlot
    /\ frames' = frames - 1
    /\ handlers' = Spawn([type |-> "auto_login", ws |-> w, pc |-> "getUserData",
                          autoLoginUserId |-> autoLoginUserId,
                          autoLoginUsername |-> autoLoginUsername])
    /\ sent' = {}
    /\ UNCHANGED <<wsCount, wsIdToWs, readyState, connections, userToWsId, waitingPlayers,
                   users, matches, matchCount, elo>>
    /\ UNCHANGED <<spectateRooms, cancelled>>

\* the auto_login handler resumes after getUserData
P1_AutoLoginStep(s) ==
    LET h == handlers[s]
        w == h.ws
        autoLoginUserData == getUserData(h.autoLoginUserId)
        existingAutoLoginWsId == userToWsId[h.autoLoginUserId]
    IN
    /\ h.type = "auto_login"
    /\ IF autoLoginUserData.username = h.autoLoginUsername
       THEN IF existingAutoLoginWsId # NoWs /\ existingAutoLoginWsId # w
            THEN /\ sent' = Send({}, w, [type |-> "auto_login_response", success |-> FALSE,
                                         message |-> "already logged in"])
                 /\ UNCHANGED <<connections, userToWsId>>
            ELSE /\ connections' = [connections EXCEPT ![w].userId = h.autoLoginUserId]
                 /\ userToWsId' = [userToWsId EXCEPT ![h.autoLoginUserId] = w]
                 /\ sent' = Send({}, w, Profile("auto_login_response", autoLoginUserData))
       ELSE /\ sent' = Send({}, w, [type |-> "auto_login_response", success |-> FALSE,
                                    message |-> "failed"])
            /\ UNCHANGED <<connections, userToWsId>>
    /\ handlers' = Finish(s)
    /\ UNCHANGED <<wsCount, wsIdToWs, readyState, waitingPlayers, users, matches,
                   matchCount, frames, elo>>
    /\ UNCHANGED <<spectateRooms, cancelled>>

\* tryMatchPlayers(), from its call up to its first await; q is the queue at the call
P1_tryMatchPlayers(q, snt) ==
    IF Len(q) < 2
    THEN /\ waitingPlayers' = q
         /\ sent' = snt
         /\ UNCHANGED <<matchCount, handlers>>
    ELSE LET player1UserId == q[1]
             player2UserId == q[2]
             rest == SubSeq(q, 3, Len(q))
             ws1Id == userToWsId[player1UserId]
             ws2Id == userToWsId[player2UserId]
             open1 == IsOpen(wsIdToWs, readyState, ws1Id)
             open2 == IsOpen(wsIdToWs, readyState, ws2Id)
             matchId == matchCount + 1
         IN  IF open1 /\ open2
             THEN /\ matchCount < MaxMatches
                  /\ HasFreeSlot
                  /\ matchCount' = matchId
                  /\ waitingPlayers' = rest
                  /\ handlers' = Spawn([type |-> "tryMatchPlayers",
                                        pc |-> "getUsernameByUserId1",
                                        player1Id |-> player1UserId,
                                        player2Id |-> player2UserId,
                                        ws1Id |-> ws1Id, ws2Id |-> ws2Id, matchId |-> matchId])
                  /\ sent' = snt
             ELSE /\ waitingPlayers' = (IF open2 THEN <<player2UserId>> ELSE <<>>) \o
                                       (IF open1 THEN <<player1UserId>> ELSE <<>>) \o rest
                  /\ sent' = snt
                  /\ UNCHANGED <<matchCount, handlers>>

\* tryMatchPlayers() resumes after an await
P1_tryMatchPlayersStep(s) ==
    LET h == handlers[s] IN
    /\ h.type = "tryMatchPlayers"
    /\ \/ /\ h.pc = "getUsernameByUserId1"
          /\ handlers' = Goto(s, [h EXCEPT !.pc = "getUsernameByUserId2"] @@
                                 [player1Username |-> users[h.player1Id].username])
          /\ sent' = {}
          /\ UNCHANGED <<connections, users, matches, waitingPlayers>>
       \/ /\ h.pc = "getUsernameByUserId2"
          \* activeConnections.get(ws).opponent_ws_id = ...: a TypeError ends the
          \* function when a socket has been closed meanwhile
          /\ IF h.ws1Id \in wsIdToWs /\ h.ws2Id \in wsIdToWs
             THEN /\ connections' = [connections EXCEPT ![h.ws1Id].opponentWsId = h.ws2Id,
                                                        ![h.ws2Id].opponentWsId = h.ws1Id]
                  /\ handlers' = Goto(s, [h EXCEPT !.pc = "updateUserData1"] @@
                                         [player2Username |-> users[h.player2Id].username])
             ELSE /\ connections' =
                        IF h.ws1Id \in wsIdToWs
                        THEN [connections EXCEPT ![h.ws1Id].opponentWsId = h.ws2Id]
                        ELSE connections
                  /\ handlers' = Finish(s)
          /\ sent' = {}
          /\ UNCHANGED <<users, matches, waitingPlayers>>
       \/ /\ h.pc = "updateUserData1"
          /\ users' = [users EXCEPT ![h.player1Id].current_match_id = h.matchId]
          /\ handlers' = Goto(s, [h EXCEPT !.pc = "updateUserData2"])
          /\ sent' = {}
          /\ UNCHANGED <<connections, matches, waitingPlayers>>
       \/ /\ h.pc = "updateUserData2"
          /\ users' = [users EXCEPT ![h.player2Id].current_match_id = h.matchId]
          /\ handlers' = Goto(s, [h EXCEPT !.pc = "insert"])
          /\ sent' = {}
          /\ UNCHANGED <<connections, matches, waitingPlayers>>
       \/ /\ h.pc = "insert"
          \* matchInsertError: both players are put back at the head of the queue
          /\ waitingPlayers' = <<h.player1Id, h.player2Id>> \o waitingPlayers
          /\ sent' = {}
          /\ handlers' = Finish(s)
          /\ UNCHANGED <<connections, users, matches>>
       \/ /\ h.pc = "insert"
          /\ matches' = matches @@ (h.matchId :> MatchRow(h.player1Id, h.player2Id))
          /\ sent' = Send(Send({}, h.ws1Id,
                               [type |-> "match_found", matchId |-> h.matchId,
                                opponentUserId |-> h.player2Id,
                                opponentUsername |-> h.player2Username,
                                isInitiator |-> TRUE]),
                          h.ws2Id,
                          [type |-> "match_found", matchId |-> h.matchId,
                           opponentUserId |-> h.player1Id,
                           opponentUsername |-> h.player1Username,
                           isInitiator |-> FALSE])
          /\ handlers' = Finish(s)
          /\ UNCHANGED <<connections, users, waitingPlayers>>
    /\ UNCHANGED <<wsCount, wsIdToWs, readyState, userToWsId, matchCount, frames, elo>>
    /\ UNCHANGED <<spectateRooms, cancelled>>

\* case 'join_queue'
P1_JoinQueue(w) ==
    /\ Receives(w)
    /\ frames' = frames - 1
    /\ IF connections[w].userId = NoUser
       THEN /\ sent' = Send({}, w, [type |-> "error"])
            /\ UNCHANGED <<waitingPlayers, matchCount, handlers>>
       ELSE IF ~Includes(waitingPlayers, connections[w].userId)
            THEN P1_tryMatchPlayers(Append(waitingPlayers, connections[w].userId),
                                    Send({}, w, [type |-> "queue_status",
                                                 message |-> "searching"]))
            ELSE /\ sent' = {}
                 /\ UNCHANGED <<waitingPlayers, matchCount, handlers>>
    /\ UNCHANGED <<wsCount, wsIdToWs, readyState, connections, userToWsId, users, matches,
                   elo>>
    /\ UNCHANGED spectateRooms
    /\ cancelled' = Rejoined(w)

\* the resolution with the opponent's rate moved by +myRateChange instead of -myRateChange;
\* the order-independence C11 does not hold of it
P1_ResolutionSameSign(myResult, theirResult, myCurrentRate, opponentCurrentRate) ==
    IF myResult = "cancel" /\ theirResult = "cancel"
    THEN << "resolved_cancel", myCurrentRate, opponentCurrentRate, "cancel", "cancel" >>
    ELSE IF (myResult = "win" /\ theirResult = "lose") \/
            (myResult = "lose" /\ theirResult = "win")
    THEN LET myRateChange == RoundedChange(IF myResult = "win" THEN 2 ELSE 0,
                                           opponentCurrentRate - myCurrentRate)
         IN << "resolved_consistent", myCurrentRate + myRateChange,
               opponentCurrentRate + myRateChange,
               IF myResult = "win" THEN "win" ELSE "lose",
               IF myResult = "win" THEN "lose" ELSE "win" >>
    ELSE << "disputed", myCurrentRate, opponentCurrentRate, "disputed", "disputed" >>

\* part_001 report_result, resolution: <<resolutionMessage, myNewRate, opponentNewRate,
\* kind of my history entry, kind of the opponent's history entry>>
P1_Resolution(myResult, theirResult, myCurrentRate, opponentCurrentRate) ==
    IF myResult = "cancel" /\ theirResult = "cancel"
    THEN << "resolved_cancel", myCurrentRate, opponentCurrentRate, "cancel", "cancel" >>
    ELSE IF (myResult = "win" /\ theirResult = "lose") \/
            (myResult = "lose" /\ theirResult = "win")
    THEN LET myRateChange == RoundedChange(IF myResult = "win" THEN 2 ELSE 0,
                                           opponentCurrentRate - myCurrentRate)
         IN << "resolved_consistent", myCurrentRate + myRateChange,
               opponentCurrentRate - myRateChange,
               IF myResult = "win" THEN "win" ELSE "lose",
               IF myResult = "win" THEN "lose" ELSE "win" >>
    ELSE << "disputed", myCurrentRate, opponentCurrentRate, "disputed", "disputed" >>

\* a history line: its kind and, for a rated result, the rate before and after
HistoryEntry(kind, from, to) ==
    IF kind \in {"win", "lose"} THEN [kind |-> kind, from |-> from, to |-> to]
    ELSE [kind |-> kind, from |-> 0, to |-> 0]

ReportFailed(s, message) ==
    /\ sent' = Send({}, handlers[s].ws,
                    [type |-> "report_result_response", success |-> FALSE,
                     message |-> message])
    /\ handlers' = Finish(s)

\* case 'report_result': up to the first await (select of the match row)
P1_ReportResult(w, reportedMatchId, reportedResult) ==
    /\ Receives(w)
    /\ frames' = frames - 1
    /\ IF connections[w].userId = NoUser
       THEN /\ sent' = Send({}, w, [type |-> "report_result_response", success |-> FALSE,
                                    message |-> "missing"])
            /\ UNCHANGED handlers
       ELSE /\ HasFreeSlot
            /\ handlers' = Spawn([type |-> "report_result", ws |-> w, pc |-> "select",
                                  reportedMatchId |-> reportedMatchId,
                                  reportedResult |-> reportedResult])
            /\ sent' = {}
    /\ UNCHANGED <<wsCount, wsIdToWs, readyState, connections, userToWsId, waitingPlayers,
                   users, matches, matchCount, elo>>
    /\ UNCHANGED <<spectateRooms, cancelled>>

\* the report_result handler resumes after an await
P1_ReportResultStep(s) ==
    LET h == handlers[s]
        id == h.reportedMatchId
        user_id == connections[h.ws].userId
    IN
    /\ h.type = "report_result"
    /\ \/ /\ h.pc = "select"
          /\ IF ~MatchExists(id) THEN ReportFailed(s, "invalid match")
             ELSE LET match == matches[id]
                      reporterIsPlayer1 == match.player1_id = user_id
                      reporterIsPlayer2 == match.player2_id = user_id
                  IN IF ~reporterIsPlayer1 /\ ~reporterIsPlayer2
                     THEN ReportFailed(s, "not a player")
                     ELSE IF (reporterIsPlayer1 /\ match.player1_report # NoReport) \/
                             (reporterIsPlayer2 /\ match.player2_report # NoReport)
                     THEN ReportFailed(s, "duplicate")
                     ELSE /\ handlers' = Goto(s, [h EXCEPT !.pc = "update"] @@
                                [reporterIsPlayer1 |-> reporterIsPlayer1,
                                 opponentId |-> IF reporterIsPlayer1 THEN match.player2_id
                                                ELSE match.player1_id])
                          /\ sent' = {}
          /\ UNCHANGED <<users, matches>>
       \/ /\ h.pc = "update"
          /\ matches' = IF h.reporterIsPlayer1
                        THEN [matches EXCEPT ![id].player1_report = h.reportedResult]
                        ELSE [matches EXCEPT ![id].player2_report = h.reportedResult]
          /\ handlers' = Goto(s, [h EXCEPT !.pc = "reselect"])
          /\ sent' = {}
          /\ UNCHANGED users
       \/ /\ h.pc = "update"
          \* the store refuses the write: update() returns an error that is not looked at
          /\ handlers' = Goto(s, [h EXCEPT !.pc = "reselect"])
          /\ sent' = {}
          /\ UNCHANGED <<users, matches>>
       \/ /\ h.pc = "reselect"
          /\ LET updatedMatch == matches[id]
                 opponentReport == IF h.reporterIsPlayer1 THEN updatedMatch.player2_report
                                   ELSE updatedMatch.player1_report
             IN IF opponentReport # NoReport
                THEN /\ handlers' = Goto(s, [h EXCEPT !.pc = "getUserData1"] @@
                                            [theirResult |-> opponentReport])
                     /\ sent' = {}
                ELSE /\ sent' = Send({}, h.ws, [type |-> "report_result_response",
                                                success |-> TRUE, result |-> "pending"])
                     /\ handlers' = Finish(s)
          /\ UNCHANGED <<users, matches>>
       \/ /\ h.pc = "getUserData1"
          \* getUserData(null) gives null and myUserData.rate throws: the catch replies
          /\ IF user_id = NoUser THEN ReportFailed(s, "error")
             ELSE /\ handlers' = Goto(s, [h EXCEPT !.pc = "getUserData2"] @@
                                         [myUserData |-> getUserData(user_id)])
                  /\ sent' = {}
          /\ UNCHANGED <<users, matches>>
       \/ /\ h.pc = "getUserData2"
          /\ LET opponentUserData == getUserData(h.opponentId)
                 myCurrentRate == h.myUserData.rate
                 opponentCurrentRate == opponentUserData.rate
                 res == P1_Resolution(h.reportedResult, h.theirResult,
                                      myCurrentRate, opponentCurrentRate)
             IN handlers' = Goto(s, [h EXCEPT !.pc = "resolve"] @@
                   [resolutionMessage |-> res[1], myNewRate |-> res[2],
                    opponentNewRate |-> res[3],
                    myMatchHistory |->
                        <<HistoryEntry(res[4], myCurrentRate, res[2])>> \o
                        h.myUserData.match_history,
                    opponentMatchHistory |->
                        <<HistoryEntry(res[5], opponentCurrentRate, res[3])>> \o
                        opponentUserData.match_history])
          /\ sent' = {}
          /\ UNCHANGED <<users, matches>>
       \/ /\ h.pc = "resolve"
          /\ matches' = [matches EXCEPT ![id].resolved_at = TRUE]
          /\ handlers' = Goto(s, [h EXCEPT !.pc = "updateUserData1"])
          /\ sent' = {}
          /\ UNCHANGED users
       \/ /\ h.pc = "updateUserData1"
          \* .eq('user_id', null) matches no row
          /\ users' = IF user_id = NoUser THEN users
                      ELSE [users EXCEPT ![user_id].rate = h.myNewRate,
                                         ![user_id].match_history = h.myMatchHistory,
                                         ![user_id].current_match_id = NoMatch]
          /\ handlers' = Goto(s, [h EXCEPT !.pc = "updateUserData2"])
          /\ sent' = {}
          /\ UNCHANGED matches
       \/ /\ h.pc = "updateUserData2"
          /\ users' = [users EXCEPT ![h.opponentId].rate = h.opponentNewRate,
                                    ![h.opponentId].match_history = h.opponentMatchHistory,
                                    ![h.opponentId].current_match_id = NoMatch]
          /\ sent' = Send(Send({}, h.ws,
                               [type |-> "report_result_response", success |-> TRUE,
                                result |-> h.resolutionMessage, myNewRate |-> h.myNewRate]),
                          userToWsId[h.opponentId],
                          [type |-> "report_result_response", success |-> TRUE,
                           result |-> h.resolutionMessage, myNewRate |-> h.opponentNewRate])
          /\ handlers' = Finish(s)
          /\ UNCHANGED matches
    /\ UNCHANGED <<wsCount, wsIdToWs, readyState, connections, userToWsId, waitingPlayers,
                   matchCount, frames, elo>>
    /\ UNCHANGED <<spectateRooms, cancelled>>

\* ws.on('close')
P1_Close(w) ==
    /\ w \in wsIdToWs
    /\ IF connections[w].userId # NoUser
       THEN /\ userToWsId' = IF userToWsId[connections[w].userId] = w
                             THEN [userToWsId EXCEPT ![connections[w].userId] = NoWs]
                             ELSE userToWsId
            /\ waitingPlayers' = Without(waitingPlayers, connections[w].userId)
       ELSE UNCHANGED <<userToWsId, waitingPlayers>>
    /\ wsIdToWs' = wsIdToWs \ {w}
    /\ sent' = {}
    /\ UNCHANGED <<wsCount, readyState, connections, users, matches, matchCount, handlers,
                   frames, elo>>
    /\ UNCHANGED <<spectateRooms, cancelled>>

Rates1 == {InitialRate}

Init1(slots, budget) ==
    /\ InitMemory(NumConns, slots, budget)
    /\ \E rates \in [Users -> Rates1] : InitStore(rates)
    /\ elo = NoElo

\* the users who log in under SpecReport1
Reporters == {"alice", "bob"}

\* Match coordinator of part_001: pairing and report_result, handlers interleaving
NextReport1 ==
    \/ P1_Connection
    \/ \E w \in WsIds, u \in Reporters : P1_AutoLogin(w, u, u)
    \/ \E w \in WsIds : P1_JoinQueue(w)
    \/ \E w \in WsIds, m \in 1..MaxMatches, r \in Results : P1_ReportResult(w, m, r)
    \/ \E s \in Slots : P1_AutoLoginStep(s)
    \/ \E s \in Slots : P1_tryMatchPlayersStep(s)
    \/ \E s \in Slots : P1_ReportResultStep(s)

SpecReport1 == Init1(ReportSlots, ReportFrames) /\ [][NextReport1]_vars

----------------------------------------------------------------------------
(* Claims about part_001 *)

MatchesOf(u) == {m \in DOMAIN matches : u \in Players(m)}

\* every registered user is still the user of the connection registered for them
OneSessionEach ==
    \A u \in Users : userToWsId[u] # NoWs => connections[userToWsId[u]].userId = u

\* C2: while every user keeps one session, resolution runs at most once per match: no
\* user's history holds more entries than that user has matches (a resolution writes a
\* player's rate and history entry in one patch)
C2_ResolvedAtMostOnce ==
    OneSessionEach =>
       \A u \in Users : Len(users[u].match_history) <= Cardinality(MatchesOf(u))

\* C7: once a report slot of a match is non-null, no step changes it
C7_ReportSlotWriteOnce ==
    [][\A m \in DOMAIN matches :
         /\ matches[m].player1_report # NoReport
               => matches'[m].player1_report = matches[m].player1_report
         /\ matches[m].player2_report # NoReport
               => matches'[m].player2_report = matches[m].player2_report]_vars

\* the category the resolution rules give to a pair of reports
Category(r1, r2) ==
    IF r1 = "cancel" /\ r2 = "cancel" THEN "resolved_cancel"
    ELSE IF {r1, r2} = {"win", "lose"} THEN "resolved_consistent"
    ELSE "disputed"

\* the kind of history entry of a player who reported `mine' against `theirs'
EntryKind(mine, theirs) ==
    IF Category(mine, theirs) = "resolved_cancel" THEN "cancel"
    ELSE IF Category(mine, theirs) = "resolved_consistent" THEN mine
    ELSE "disputed"

Kinds(history) == [i \in 1..Len(history) |-> history[i].kind]

\* C8: while every user keeps one session, the category announced in a resolution
\* message is the category of the match's two reports (cancel iff both cancel, consistent
\* iff one win and one lose, disputed otherwise), and once the match is resolved and no
\* handler is in flight each player's history holds exactly one entry, of the matching kind
C8_OutcomeByReports ==
    \A m \in DOMAIN matches :
       LET row == matches[m] IN
       OneSessionEach =>
       /\ \A x \in sent :
             (x[2].type = "report_result_response" /\ x[2].success /\ x[2].result # "pending")
                => x[2].result = Category(row.player1_report, row.player2_report)
       /\ (row.resolved_at /\ InFlight = 0 /\ row.player1_id # row.player2_id)
             => /\ Kinds(users[row.player1_id].match_history) =
                      <<EntryKind(row.player1_report, row.player2_report)>>
                /\ Kinds(users[row.player2_id].match_history) =
                      <<EntryKind(row.player2_report, row.player1_report)>>

----------------------------------------------------------------------------
(* part_003: the takeover hub (handleLogin) *)

\* wss.on('connection')
P3_Connection ==
    /\ wsCount + 1 \in WsIds
    /\ wsCount' = wsCount + 1
    /\ wsIdToWs' = wsIdToWs \cup {wsCount + 1}
    /\ connections' = [connections EXCEPT ![wsCount + 1] = BlankSession]
    /\ sent' = {}
    /\ UNCHANGED <<readyState, userToWsId, waitingPlayers, users, matches, matchCount,
                   handlers, frames, elo>>
    /\ UNCHANGED <<spectateRooms, cancelled>>

\* case 'login': up to the first await (getUserIdByUsername)
P3_Login(w, username, passwordOk) ==
    /\ Receives(w) /\ HasFreeSlot
    /\ frames' = frames - 1
    /\ handlers' = Spawn([type |-> "login", ws |-> w, pc |-> "getUserIdByUsername",
                          username |-> username, passwordOk |-> passwordOk])
    /\ sent' = {}
    /\ UNCHANGED <<wsCount, wsIdToWs, readyState, connections, userToWsId, waitingPlayers,
                   users, matches, matchCount, elo>>
    /\ UNCHANGED <<spectateRooms, cancelled>>

\* case 'auto_login': up to the first await (getUserData)
P3_AutoLogin(w, userId, username) ==
    /\ Receives(w) /\ HasFreeSlot
    /\ frames' = frames - 1
    /\ handlers' = Spawn([type |-> "auto_login", ws |-> w, pc |-> "getUserData",
                          userId |-> userId, username |-> username])
    /\ sent' = {}
    /\ UNCHANGED <<wsCount, wsIdToWs, readyState, connections, userToWsId, waitingPlayers,
                   users, matches, matchCount, elo>>
    /\ UNCHANGED <<spectateRooms, cancelled>>

\* handleLogin(userId, username, requestType), from its call up to its await: the
\* connection registered for userId, if another one, is sent logout_forced and closed
P3_handleLogin(s, userId) ==
    LET h == handlers[s]
        existingWsId == userToWsId[userId]
    IN
    /\ handlers' = Goto(s, [type |-> h.type, ws |-> h.ws, pc |-> "handleLogin",
                            userId |-> userId])
    /\ IF existingWsId # NoWs /\ existingWsId # h.ws /\ existingWsId \in wsIdToWs
       THEN /\ sent' = Send({}, existingWsId, [type |-> "logout_forced"])
            /\ readyState' = [readyState EXCEPT ![existingWsId] = "CLOSING"]
       ELSE /\ sent' = {}
            /\ UNCHANGED readyState
    /\ UNCHANGED <<connections, userToWsId>>

P3_LoginFailed(s) ==
    /\ sent' = Send({}, handlers[s].ws,
                    [type |-> handlers[s].type \o "_response", success |-> FALSE])
    /\ handlers' = Finish(s)
    /\ UNCHANGED <<readyState, connections, userToWsId>>

\* the login / auto_login handler resumes after an await
P3_LoginStep(s) ==
    LET h == handlers[s] IN
    /\ h.type \in {"login", "auto_login"}
    /\ \/ /\ h.pc = "getUserIdByUsername"
          /\ LET userId == getUserIdByUsername(h.username) IN
             IF userId = NoUser THEN P3_LoginFailed(s)
             ELSE /\ handlers' = Goto(s, [h EXCEPT !.pc = "getUserData"] @@
                                         [userId |-> userId])
                  /\ sent' = {}
                  /\ UNCHANGED <<readyState, connections, userToWsId>>
       \/ /\ h.pc = "getUserData" /\ h.type = "login"
          /\ handlers' = Goto(s, [h EXCEPT !.pc = "compare"])
          /\ sent' = {}
          /\ UNCHANGED <<readyState, connections, userToWsId>>
       \/ /\ h.pc = "compare"
          /\ IF h.passwordOk THEN P3_handleLogin(s, h.userId) ELSE P3_LoginFailed(s)
       \/ /\ h.pc = "getUserData" /\ h.type = "auto_login"
          /\ IF getUserData(h.userId).username = h.username
             THEN P3_handleLogin(s, h.userId)
             ELSE P3_LoginFailed(s)
       \/ /\ h.pc = "handleLogin"
          \* senderInfo.user_id = userId; userToWsId.set(userId, wsId); ws.send(success)
          /\ connections' = [connections EXCEPT ![h.ws].userId = h.userId]
          /\ userToWsId' = [userToWsId EXCEPT ![h.userId] = h.ws]
          /\ sent' = Send({}, h.ws, Profile(h.type \o "_response", getUserData(h.userId)))
          /\ handlers' = Finish(s)
          /\ UNCHANGED readyState
    /\ UNCHANGED <<wsCount, wsIdToWs, waitingPlayers, users, matches, matchCount, frames,
                   elo>>
    /\ UNCHANGED <<spectateRooms, cancelled>>

\* case 'logout'
P3_Logout(w) ==
    /\ Receives(w)
    /\ frames' = frames - 1
    /\ IF connections[w].userId # NoUser
       THEN /\ userToWsId' = [userToWsId EXCEPT ![connections[w].userId] = NoWs]
            /\ connections' = [connections EXCEPT ![w].userId = NoUser]
       ELSE UNCHANGED <<userToWsId, connections>>
    /\ sent' = Send({}, w, [type |-> "logout_response", success |-> TRUE])
    /\ UNCHANGED <<wsCount, wsIdToWs, readyState, waitingPlayers, users, matches,
                   matchCount, handlers, elo>>
    /\ UNCHANGED <<spectateRooms, cancelled>>

\* case 'update_user_data': up to its await (updateUserData); data carries currentMatchId
P3_UpdateUserData(w, currentMatchId) ==
    /\ Receives(w)
    /\ frames' = frames - 1
    /\ IF connections[w].userId # NoUser
       THEN /\ HasFreeSlot
            /\ handlers' = Spawn([type |-> "update_user_data", ws |-> w,
                                  userId |-> connections[w].userId,
                                  currentMatchId |-> currentMatchId])
       ELSE UNCHANGED handlers
    /\ sent' = {}
    /\ UNCHANGED <<wsCount, wsIdToWs, readyState, connections, userToWsId, waitingPlayers,
                   users, matches, matchCount, elo>>
    /\ UNCHANGED <<spectateRooms, cancelled>>

\* the update_user_data handler resumes: UPDATE users SET ... WHERE user_id = $n
P3_UpdateUserDataStep(s) ==
    LET h == handlers[s] IN
    /\ h.type = "update_user_data"
    /\ users' = [users EXCEPT ![h.userId].current_match_id = h.currentMatchId]
    /\ handlers' = Finish(s)
    /\ sent' = {}
    /\ UNCHANGED <<wsCount, wsIdToWs, readyState, connections, userToWsId, waitingPlayers,
                   matches, matchCount, frames, elo>>
    /\ UNCHANGED <<spectateRooms, cancelled>>

\* ws.on('close')
P3_Close(w) ==
    /\ w \in wsIdToWs
    /\ IF connections[w].userId # NoUser /\ userToWsId[connections[w].userId] = w
       THEN /\ userToWsId' = [userToWsId EXCEPT ![connections[w].userId] = NoWs]
            /\ waitingPlayers' = Without(waitingPlayers, connections[w].userId)
       ELSE UNCHANGED <<userToWsId, waitingPlayers>>
    /\ wsIdToWs' = wsIdToWs \ {w}
    /\ sent' = {}
    /\ UNCHANGED <<wsCount, readyState, connections, users, matches, matchCount, handlers,
                   frames, elo>>
    /\ UNCHANGED <<spectateRooms, cancelled>>

Init3(conns, slots, budget) ==
    /\ InitMemory(conns, slots, budget)
    /\ InitStore([u \in Users |-> InitialRate])
    /\ elo = NoElo

\* the users who log in under SpecTakeover3
Claimants == {"alice", "bob"}

\* Session table of part_003: login, auto_login, logout, update_user_data, close
NextTakeover3 ==
    \/ P3_Connection
    \/ \E w \in WsIds, u \in Claimants, ok \in BOOLEAN : P3_Login(w, u, ok)
    \/ \E w \in WsIds, u \in Claimants, n \in Claimants : P3_AutoLogin(w, u, n)
    \/ \E w \in WsIds : P3_Logout(w)
    \/ \E w \in WsIds, m \in 0..MaxMatches : P3_UpdateUserData(w, m)
    \/ \E s \in Slots : P3_LoginStep(s)
    \/ \E s \in Slots : P3_UpdateUserDataStep(s)
    \/ \E w \in WsIds : P3_Close(w)

SpecTakeover3 == Init3(TakeoverConns, TakeoverSlots, TakeoverFrames) /\ [][NextTakeover3]_vars

----------------------------------------------------------------------------
(* Claims about part_003 *)

\* connection w receives in this step the success reply of a login as user u
LoggedIn(w, u) ==
    \E x \in sent' :
        /\ x[1] = w
        /\ x[2].type \in {"login_response", "auto_login_response"}
        /\ x[2].success
        /\ x[2].userId = u

\* C4: when a login as user U succeeds on connection C2, then userToWsId[U] = C2 and no
\* other live connection is left open with a session bound to U (a connection that held
\* U has been closed by the hub, so that its later frames are not served as U), also
\* when several logins interleave at the await of handleLogin
C4_SessionTakeover ==
    [][\A w \in WsIds, u \in Users :
         LoggedIn(w, u) =>
            /\ userToWsId'[u] = w
            /\ \A c \in wsIdToWs' \ {w} :
                  connections'[c].userId = u => readyState'[c] # "OPEN"]_vars

----------------------------------------------------------------------------
(* index.js (second program): calculateElo, queue of {userId, wsId}, report_result. *)
(* Its login cases are elided in the source ("unchanged"): they are those of        *)
(* part_003.  The userMatches map is only written and is left out.                  *)

\* calculateElo(playerRate, opponentRate, result)
calculateElo(playerRate, opponentRate, result) ==
    LET actualScore2 == IF result = "win" THEN 2 ELSE IF result = "lose" THEN 0 ELSE 1
    IN playerRate + RoundedChange(actualScore2, opponentRate - playerRate)

\* tryMatchPlayers(), from its call up to its first await; q is the queue at the call
Idx_tryMatchPlayers(q, snt) ==
    IF Len(q) < 2
    THEN /\ waitingPlayers' = q
         /\ sent' = snt
         /\ UNCHANGED <<matchCount, handlers>>
    ELSE LET player1Info == q[1]
             player2Info == q[2]
             rest == SubSeq(q, 3, Len(q))
             has1 == player1Info.wsId \in wsIdToWs
             has2 == player2Info.wsId \in wsIdToWs
         IN  IF has1 /\ has2
             THEN /\ matchCount < MaxMatches
                  /\ HasFreeSlot
                  /\ matchCount' = matchCount + 1
                  /\ waitingPlayers' = rest
                  /\ handlers' = Spawn([type |-> "tryMatchPlayers", pc |-> "getUserData1",
                                        player1Info |-> player1Info,
                                        player2Info |-> player2Info,
                                        matchId |-> matchCount + 1])
                  /\ sent' = snt
             ELSE /\ waitingPlayers' = (IF has2 THEN <<player2Info>> ELSE <<>>) \o
                                       (IF has1 THEN <<player1Info>> ELSE <<>>) \o rest
                  /\ sent' = snt
                  /\ UNCHANGED <<matchCount, handlers>>

\* tryMatchPlayers() resumes after an await
Idx_tryMatchPlayersStep(s) ==
    LET h == handlers[s] IN
    /\ h.type = "tryMatchPlayers"
    /\ \/ /\ h.pc = "getUserData1"
          /\ handlers' = Goto(s, [h EXCEPT !.pc = "getUserData2"] @@
                                 [player1Data |-> getUserData(h.player1Info.userId)])
          /\ sent' = {}
          /\ UNCHANGED matches
       \/ /\ h.pc = "getUserData2"
          /\ handlers' = Goto(s, [h EXCEPT !.pc = "insert"] @@
                                 [player2Data |-> getUserData(h.player2Info.userId)])
          /\ sent' = {}
          /\ UNCHANGED matches
       \/ /\ h.pc = "insert"
          /\ matches' = matches @@
                        (h.matchId :> MatchRow(h.player1Info.userId, h.player2Info.userId))
          /\ sent' = Send(Send({}, h.player1Info.wsId,
                               [type |-> "match_found", matchId |-> h.matchId,
                                opponentId |-> h.player2Info.userId, initiator |-> TRUE]),
                          h.player2Info.wsId,
                          [type |-> "match_found", matchId |-> h.matchId,
                           opponentId |-> h.player1Info.userId, initiator |-> FALSE])
          /\ handlers' = Finish(s)
    /\ UNCHANGED <<wsCount, wsIdToWs, readyState, connections, userToWsId, waitingPlayers,
                   users, matchCount, frames, elo>>
    /\ UNCHANGED <<spectateRooms, cancelled>>

\* case 'join_queue'
Idx_JoinQueue(w) ==
    LET senderId == connections[w].userId IN
    /\ Receives(w)
    /\ frames' = frames - 1
    /\ IF senderId # NoUser /\ ~\E i \in 1..Len(waitingPlayers) :
                                   waitingPlayers[i].userId = senderId
       THEN Idx_tryMatchPlayers(Append(waitingPlayers, [userId |-> senderId, wsId |-> w]),
                                Send({}, w, [type |-> "queue_status"]))
       ELSE /\ sent' = {}
            /\ UNCHANGED <<waitingPlayers, matchCount, handlers>>
    /\ UNCHANGED <<wsCount, wsIdToWs, readyState, connections, userToWsId, users, matches,
                   elo>>
    /\ UNCHANGED <<spectateRooms, cancelled>>

\* case 'report_result': up to the first await (SELECT of the match row)
Idx_ReportResult(w, matchId, result) ==
    LET senderId == connections[w].userId IN
    /\ Receives(w)
    /\ frames' = frames - 1
    /\ IF senderId = NoUser
       THEN UNCHANGED handlers
       ELSE /\ HasFreeSlot
            /\ handlers' = Spawn([type |-> "report_result", ws |-> w, pc |-> "select",
                                  senderId |-> senderId, matchId |-> matchId,
                                  result |-> result])
    /\ sent' = {}
    /\ UNCHANGED <<wsCount, wsIdToWs, readyState, connections, userToWsId, waitingPlayers,
                   users, matches, matchCount, elo>>
    /\ UNCHANGED <<spectateRooms, cancelled>>

\* the report_result handler resumes after an await
Idx_ReportResultStep(s) ==
    LET h == handlers[s]
        id == h.matchId
    IN
    /\ h.type = "report_result"
    /\ \/ /\ h.pc = "select"
          /\ IF ~MatchExists(id) THEN handlers' = Finish(s)
             ELSE handlers' = Goto(s, [h EXCEPT !.pc = "update"] @@
                                      [isPlayer1 |-> (matches[id].player1_id = h.senderId)])
          /\ sent' = {}
          /\ UNCHANGED <<users, matches>>
       \/ /\ h.pc = "update"
          /\ matches' = IF h.isPlayer1
                        THEN [matches EXCEPT ![id].player1_report = h.result]
                        ELSE [matches EXCEPT ![id].player2_report = h.result]
          /\ handlers' = Goto(s, [h EXCEPT !.pc = "reselect"])
          /\ sent' = {}
          /\ UNCHANGED users
       \/ /\ h.pc = "reselect"
          /\ LET updatedMatch == matches[id] IN
             IF updatedMatch.player1_report # NoReport /\ updatedMatch.player2_report # NoReport
             THEN handlers' = Goto(s, [h EXCEPT !.pc = "getUserData1"] @@
                                      [updatedMatch |-> updatedMatch])
             ELSE handlers' = Goto(s, [h EXCEPT !.pc = "getUserData"])
          /\ sent' = {}
          /\ UNCHANGED <<users, matches>>
       \/ /\ h.pc = "getUserData1"
          /\ handlers' = Goto(s, [h EXCEPT !.pc = "getUserData2"] @@
                                 [player1 |-> getUserData(h.updatedMatch.player1_id)])
          /\ sent' = {}
          /\ UNCHANGED <<users, matches>>
       \/ /\ h.pc = "getUserData2"
          /\ LET player1 == h.player1
                 player2 == getUserData(h.updatedMatch.player2_id)
                 report1 == h.updatedMatch.player1_report
                 report2 == h.updatedMatch.player2_report
                 p1Result == IF (report1 = "win" /\ report2 # "lose") \/
                                (report1 = "lose" /\ report2 # "win")
                             THEN "cancel" ELSE report1
                 p2Result == IF p1Result = "win" THEN "lose"
                             ELSE IF p1Result = "lose" THEN "win" ELSE "cancel"
             IN handlers' = Goto(s, [h EXCEPT !.pc = "updateRate1"] @@
                   [newRate1 |-> calculateElo(player1.rate, player2.rate, p1Result),
                    newRate2 |-> calculateElo(player2.rate, player1.rate, p2Result)])
          /\ sent' = {}
          /\ UNCHANGED <<users, matches>>
       \/ /\ h.pc = "updateRate1"
          /\ users' = [users EXCEPT ![h.updatedMatch.player1_id].rate = h.newRate1]
          /\ handlers' = Goto(s, [h EXCEPT !.pc = "updateRate2"])
          /\ sent' = {}
          /\ UNCHANGED matches
       \/ /\ h.pc = "updateRate2"
          /\ users' = [users EXCEPT ![h.updatedMatch.player2_id].rate = h.newRate2]
          /\ handlers' = Goto(s, [h EXCEPT !.pc = "resolve"])
          /\ sent' = {}
          /\ UNCHANGED matches
       \/ /\ h.pc = "resolve"
          /\ matches' = [matches EXCEPT ![id].resolved_at = TRUE]
          /\ handlers' = Goto(s, [h EXCEPT !.pc = "getUserData"])
          /\ sent' = {}
          /\ UNCHANGED users
       \/ /\ h.pc = "getUserData"
          /\ sent' = Send({}, h.ws, [type |-> "report_result_response", success |-> TRUE,
                                     userId |-> h.senderId,
                                     rate |-> getUserData(h.senderId).rate])
          /\ handlers' = Finish(s)
          /\ UNCHANGED <<users, matches>>
    /\ UNCHANGED <<wsCount, wsIdToWs, readyState, connections, userToWsId, waitingPlayers,
                   matchCount, frames, elo>>
    /\ UNCHANGED <<spectateRooms, cancelled>>

\* rates found in the users table when the hub starts
RatesIdx == {InitialRate, InitialRate + RateGap}

InitIdx(slots, budget) ==
    /\ InitMemory(NumConns, slots, budget)
    /\ \E rates \in [Users -> RatesIdx] : InitStore(rates)
    /\ elo = NoElo

\* Match coordinator of index.js: pairing and report_result, one async handler at a time
NextIndex ==
    \/ P3_Connection
    \/ \E w \in WsIds, u \in Reporters : P3_AutoLogin(w, u, u)
    \/ \E w \in WsIds : Idx_JoinQueue(w)
    \/ \E w \in WsIds, m \in 1..MaxMatches, r \in Results : Idx_ReportResult(w, m, r)
    \/ \E s \in Slots : P3_LoginStep(s)
    \/ \E s \in Slots : Idx_tryMatchPlayersStep(s)
    \/ \E s \in Slots : Idx_ReportResultStep(s)

SpecIndex == InitIdx(IndexSlots, IndexFrames) /\ [][NextIndex]_vars

----------------------------------------------------------------------------
(* Claims about index.js *)

\* C9: a step of a report_result handler that resolves a match whose two reports are both
\* cancel, or are disputed, leaves every stored rate unchanged
C9_OnlyConsistentChangesRates ==
    [][\A s \in Slots :
         LET h == handlers[s] IN
         (/\ h.type = "report_result"
          /\ h.pc \in {"updateRate1", "updateRate2"}
          /\ Category(h.updatedMatch.player1_report, h.updatedMatch.player2_report)
                # "resolved_consistent")
            => \A u \in Users : users'[u].rate = users[u].rate]_vars

----------------------------------------------------------------------------
(* The rate computation of part_006 on its own: every pair of rates of the range, *)
(* every pair of reports                                                          *)

InitElo ==
    /\ InitMemory(NumConns, 1, 0)
    /\ InitStore([u \in Users |-> InitialRate])
    /\ elo \in [r1 : EloLo..EloHi, r2 : RatesIdx, p1 : Results, p2 : Results,
                n1 : {0}, n2 : {0}, computed : {FALSE}]

\* part_006 report_result, the resolution of a match between players rated r1 and r2
\* who reported p1 and p2
Elo_Resolve ==
    /\ ~elo.computed
    /\ LET newRates == P6_NewRates(elo.r1, elo.r2, elo.p1, elo.p2) IN
       elo' = [elo EXCEPT !.n1 = newRates[1], !.n2 = newRates[2], !.computed = TRUE]
    /\ UNCHANGED <<wsCount, wsIdToWs, readyState, connections, userToWsId, waitingPlayers,
                   users, matches, matchCount, handlers, sent, frames>>
    /\ UNCHANGED <<spectateRooms, cancelled>>

NextElo == Elo_Resolve

SpecElo == InitElo /\ [][NextElo]_vars

\* C10: for a consistently resolved match (one win, one lose), the two rate changes, each
\* rounded on its own, sum to exactly 0
C10_ZeroSum ==
    (elo.computed /\ {elo.p1, elo.p2} = {"win", "lose"})
       => (elo.n1 - elo.r1) + (elo.n2 - elo.r2) = 0

\* the lower-rated player won and gained more than K / 2
C10_UnderdogWins ==
    /\ elo.computed
    /\ elo.p1 = "win" /\ elo.p2 = "lose"
    /\ elo.r1 < elo.r2
    /\ elo.n1 - elo.r1 > K \div 2
    /\ elo.n2 < elo.r2

----------------------------------------------------------------------------
(* The resolution of part_001 on its own: every pair of rates of the range, every *)
(* pair of reports, resolved by the handler of either player (the player who      *)
(* reports second)                                                                *)

InitOutcome1 ==
    /\ InitMemory(NumConns, 1, 0)
    /\ InitStore([u \in Users |-> InitialRate])
    /\ elo \in [r1 : EloLo..EloHi, r2 : RatesIdx, p1 : Results, p2 : Results,
                n1 : {0}, n2 : {0}, computed : {FALSE}, resolver : {0},
                resolutionMessage : {"none"}]

\* part_001 report_result, the resolution run by the handler of player `resolver':
\* myResult and myCurrentRate are that player's
P1_Resolve(resolver) ==
    /\ ~elo.computed
    /\ LET res == IF resolver = 1 THEN P1_Resolution(elo.p1, elo.p2, elo.r1, elo.r2)
                  ELSE P1_Resolution(elo.p2, elo.p1, elo.r2, elo.r1)
       IN elo' = [elo EXCEPT !.computed = TRUE, !.resolver = resolver,
                             !.resolutionMessage = res[1],
                             !.n1 = IF resolver = 1 THEN res[2] ELSE res[3],
                             !.n2 = IF resolver = 1 THEN res[3] ELSE res[2]]
    /\ UNCHANGED <<wsCount, wsIdToWs, readyState, connections, userToWsId, waitingPlayers,
                   users, matches, matchCount, handlers, sent, frames>>
    /\ UNCHANGED <<spectateRooms, cancelled>>

NextOutcome1 == \E resolver \in 1..2 : P1_Resolve(resolver)

SpecOutcome1 == InitOutcome1 /\ [][NextOutcome1]_vars

\* C11: the category and the two new rates are what the resolution gives from player 1's
\* side, whichever player's handler resolved; with rates 1500 / 1500 and reports
\* win / lose they are 1516 for the winner and 1484 for the loser
C11_OutcomeWhoeverResolves ==
    elo.computed =>
       LET res == P1_Resolution(elo.p1, elo.p2, elo.r1, elo.r2) IN
       /\ <<elo.resolutionMessage, elo.n1, elo.n2>> = <<res[1], res[2], res[3]>>
       /\ (elo.r1 = InitialRate /\ elo.r2 = InitialRate /\ elo.p1 = "win" /\ elo.p2 = "lose")
             => (elo.n1 = InitialRate + K \div 2 /\ elo.n2 = InitialRate - K \div 2)

\* the loser, rated higher, reported second and resolved a consistent match
C11_LoserResolves ==
    /\ elo.computed /\ elo.resolver = 2
    /\ elo.p1 = "win" /\ elo.p2 = "lose"
    /\ elo.r1 < elo.r2
    /\ elo.n1 > elo.r1 + K \div 2

----------------------------------------------------------------------------
(* part_006 started on a store whose users have played before *)

\* the history of a user after n earlier matches, as part_006 wrote it
EarlierHistory(n) ==
    [i \in 1..n |-> [vs |-> "earlier", result |-> "win", rate |-> InitialRate]]

InitHistory6(slots, budget) ==
    /\ InitMemory(NumConns, slots, budget)
    /\ \E n \in {0, HistoryCap} :
          users = [u \in Users |->
                     [UserRow(u, InitialRate) EXCEPT !.match_history = EarlierHistory(n)]]
    /\ matches = << >>
    /\ matchCount = 0
    /\ elo = NoElo

SpecHistory6 == InitHistory6(MatchSlots, MatchFrames) /\ [][NextMatch6]_vars

\* C12: a step that writes a user's match history leaves at most HistoryCap entries, the
\* new entry first and the former entries after it in their order
C12_HistoryCappedNewestFirst ==
    [][\A u \in Users :
         LET old == users[u].match_history
             new == users'[u].match_history
         IN new # old =>
               /\ Len(new) <= HistoryCap
               /\ Len(new) >= 1
               /\ SubSeq(new, 2, Len(new)) = SubSeq(old, 1, Len(new) - 1)]_vars

\* C13: the step that marks a match resolved leaves both players' stored currentMatchId
\* empty and no session of either player carrying the match or an opponent pointer
C13_ResolutionClearsMatch ==
    [][\A m \in DOMAIN matches :
         (~matches[m].resolved_at /\ matches'[m].resolved_at) =>
            /\ \A u \in Players(m) : users'[u].current_match_id = NoMatch
            /\ \A w \in WsIds :
                  connections'[w].userId \in Players(m) =>
                     /\ connections'[w].matchId = NoMatch
                     /\ connections'[w].opponentWsId = NoWs]_vars

\* the matches a user plays in that are not resolved yet
UnresolvedOf(u) == {m \in DOMAIN matches : u \in Players(m) /\ ~matches[m].resolved_at}

\* C14: no user is a player in two matches whose resolved_at is empty
C14_OneUnresolvedMatchPerUser ==
    \A u \in Users : Cardinality(UnresolvedOf(u)) <= 1

----------------------------------------------------------------------------
(* part_001: the waiting queue *)

\* case 'leave_queue'
P1_LeaveQueue(w) ==
    /\ Receives(w)
    /\ frames' = frames - 1
    /\ IF connections[w].userId = NoUser
       THEN /\ sent' = Send({}, w, [type |-> "error"])
            /\ UNCHANGED waitingPlayers
       ELSE /\ waitingPlayers' = Without(waitingPlayers, connections[w].userId)
            /\ sent' = Send({}, w, [type |-> "queue_status", message |-> "cancelled"])
    /\ UNCHANGED <<wsCount, wsIdToWs, readyState, connections, userToWsId, users, matches,
                   matchCount, handlers, elo>>
    /\ UNCHANGED spectateRooms
    /\ cancelled' = Acknowledged(w)

\* Waiting queue of part_001: join_queue, leave_queue, close and tryMatchPlayers
NextQueue1 ==
    \/ P1_Connection
    \/ \E w \in WsIds, u \in Reporters : P1_AutoLogin(w, u, u)
    \/ \E w \in WsIds : P1_JoinQueue(w)
    \/ \E w \in WsIds : P1_LeaveQueue(w)
    \/ \E w \in WsIds : P1_Close(w)
    \/ \E s \in Slots : P1_AutoLoginStep(s)
    \/ \E s \in Slots : P1_tryMatchPlayersStep(s)

SpecQueue1 == Init1(QueueSlots, QueueFrames) /\ [][NextQueue1]_vars

\* C15: no user-id occurs twice in the waiting queue
C15_QueueHasNoDuplicates ==
    \A i, j \in 1..Len(waitingPlayers) : waitingPlayers[i] = waitingPlayers[j] => i = j

----------------------------------------------------------------------------
(* part_006: the queue among users who are already logged in *)

\* the user logged in on connection w when the queue opens
UserOn(w) == IF w <= 3 THEN <<"alice", "bob", "cara">>[w] ELSE NoUser

\* every connection is open and logged in, nobody is queued yet
InitLoggedIn6(conns, slots, budget) ==
    /\ wsCount = conns
    /\ wsIdToWs = 1..conns
    /\ readyState = [w \in 1..conns |-> "OPEN"]
    /\ connections = [w \in 1..conns |->
                        [BlankSession EXCEPT !.userId = UserOn(w), !.username = UserOn(w)]]
    /\ userToWsId = [u \in Users |->
                       IF \E w \in 1..conns : UserOn(w) = u
                       THEN CHOOSE w \in 1..conns : UserOn(w) = u ELSE NoWs]
    /\ waitingPlayers = <<>>
    /\ handlers = [s \in 1..slots |-> Idle]
    /\ sent = {}
    /\ frames = budget
    /\ spectateRooms = << >>
    /\ cancelled = {}
    /\ InitStore([u \in Users |-> InitialRate])
    /\ elo = NoElo

NextFifo6 ==
    \/ \E w \in WsIds, u \in Users : P6_AutoLogin(w, u, u)
    \/ \E w \in WsIds : P6_Logout(w)
    \/ \E w \in WsIds : P6_JoinQueue(w)
    \/ \E w \in WsIds : P6_LeaveQueue(w)
    \/ \E w \in WsIds : P6_Close(w)
    \/ \E s \in Slots : P6_LoginStep(s)
    \/ \E s \in Slots : P6_tryMatchPlayersStep(s)

SpecFifo6 == InitLoggedIn6(FifoConns, FifoSlots, FifoFrames) /\ [][NextFifo6]_vars

\* the user is registered on a live, open socket
IsLive(u) == IsOpen(wsIdToWs, readyState, userToWsId[u])

\* the queued users who are live, in queue order
LiveQueue == SelectSeq(waitingPlayers, IsLive)

InitiatorMessages(snt, m) ==
    {x \in snt : x[2].type = "match_found" /\ x[2].matchId = m /\ x[2].isInitiator}

----------------------------------------------------------------------------
(* part_006: the 1v1 signalling relay *)

\* case 'webrtc_signal'
P6_WebrtcSignal(w) ==
    /\ Receives(w)
    /\ frames' = frames - 1
    /\ sent' = IF connections[w].opponentWsId # NoWs
               THEN Send({}, connections[w].opponentWsId,
                         [type |-> "webrtc_signal", signal |-> "signal"])
               ELSE {}
    /\ UNCHANGED <<wsCount, wsIdToWs, readyState, connections, userToWsId, waitingPlayers,
                   users, matches, matchCount, handlers, elo>>
    /\ UNCHANGED <<spectateRooms, cancelled>>

NextSignal6 ==
    \/ \E w \in WsIds : P6_JoinQueue(w)
    \/ \E w \in WsIds : P6_Logout(w)
    \/ \E w \in WsIds : P6_WebrtcSignal(w)
    \/ \E w \in WsIds : P6_Close(w)
    \/ \E s \in Slots : P6_tryMatchPlayersStep(s)

SpecSignal6 == InitLoggedIn6(NumConns, SignalSlots, SignalFrames) /\ [][NextSignal6]_vars

\* C18: a step delivers at most one webrtc_signal, and only to a connection that is the
\* opponent pointer of a connection which is logged in
C18_SignalOnlyFromPairedUser ==
    [][LET signals == {x \in sent' : x[2].type = "webrtc_signal"} IN
       /\ Cardinality(signals) <= 1
       /\ \A x \in signals :
             \E w \in WsIds :
                /\ w \in wsIdToWs
                /\ connections[w].userId # NoUser
                /\ connections[w].opponentWsId = x[1]]_vars

----------------------------------------------------------------------------
(* part_006: spectate rooms *)

\* the roomIds a frame may name
RoomIds == 1..MaxRooms

\* case 'start_broadcast'
P6_StartBroadcast(w) ==
    /\ Receives(w)
    /\ frames' = frames - 1
    /\ IF connections[w].userId = NoUser
       THEN /\ sent' = {}
            /\ UNCHANGED spectateRooms
       ELSE LET roomId == Len(spectateRooms) + 1 IN
            /\ spectateRooms' = Append(spectateRooms,
                                       [open |-> TRUE, broadcasterWsId |-> w,
                                        broadcasterUsername |-> connections[w].username,
                                        spectators |-> {}])
            /\ sent' = Send({}, w, [type |-> "broadcast_started", roomId |-> roomId])
                          \cup broadcastListUpdate(spectateRooms', wsIdToWs)
    /\ UNCHANGED <<wsCount, wsIdToWs, readyState, connections, userToWsId, waitingPlayers,
                   users, matches, matchCount, handlers, elo>>
    /\ UNCHANGED cancelled

\* stop_broadcast without the test room.broadcasterWsId === wsId; C23 does not hold of it
P6_StopBroadcastByAnyone(w, roomId) ==
    /\ Receives(w)
    /\ frames' = frames - 1
    /\ IF HasRoom(roomId)
       THEN /\ spectateRooms' = [spectateRooms EXCEPT ![roomId] = NoRoom]
            /\ sent' = {<<sp, [type |-> "broadcast_stopped", roomId |-> roomId]>> :
                           sp \in {x \in spectateRooms[roomId].spectators :
                                      IsOpen(wsIdToWs, readyState, x)}}
                       \cup broadcastListUpdate(spectateRooms', wsIdToWs)
       ELSE /\ sent' = {}
            /\ UNCHANGED spectateRooms
    /\ UNCHANGED <<wsCount, wsIdToWs, readyState, connections, userToWsId, waitingPlayers,
                   users, matches, matchCount, handlers, elo>>
    /\ UNCHANGED cancelled

\* case 'stop_broadcast'
P6_StopBroadcast(w, roomId) ==
    /\ Receives(w)
    /\ frames' = frames - 1
    /\ IF HasRoom(roomId) /\ spectateRooms[roomId].broadcasterWsId = w
       THEN /\ spectateRooms' = [spectateRooms EXCEPT ![roomId] = NoRoom]
            /\ sent' = {<<sp, [type |-> "broadcast_stopped", roomId |-> roomId]>> :
                           sp \in {x \in spectateRooms[roomId].spectators :
                                      IsOpen(wsIdToWs, readyState, x)}}
                       \cup broadcastListUpdate(spectateRooms', wsIdToWs)
       ELSE /\ sent' = {}
            /\ UNCHANGED spectateRooms
    /\ UNCHANGED <<wsCount, wsIdToWs, readyState, connections, userToWsId, waitingPlayers,
                   users, matches, matchCount, handlers, elo>>
    /\ UNCHANGED cancelled

\* case 'join_spectate_room'
P6_JoinSpectateRoom(w, roomId) ==
    /\ Receives(w)
    /\ frames' = frames - 1
    /\ IF HasRoom(roomId)
       THEN /\ spectateRooms' = [spectateRooms EXCEPT ![roomId].spectators = @ \cup {w}]
            /\ sent' = Send({}, spectateRooms[roomId].broadcasterWsId,
                            [type |-> "new_spectator", spectatorId |-> w])
       ELSE /\ sent' = {}
            /\ UNCHANGED spectateRooms
    /\ UNCHANGED <<wsCount, wsIdToWs, readyState, connections, userToWsId, waitingPlayers,
                   users, matches, matchCount, handlers, elo>>
    /\ UNCHANGED cancelled

\* case 'webrtc_signal_to_spectator'; from: 'broadcaster' is written as no wsId
P6_SignalToSpectator(w, roomId, spectatorId) ==
    /\ Receives(w)
    /\ frames' = frames - 1
    /\ sent' = IF HasRoom(roomId) /\ spectatorId \in spectateRooms[roomId].spectators
               THEN Send({}, spectatorId, [type |-> "broadcast_signal", from |-> NoWs,
                                           signal |-> "signal"])
               ELSE {}
    /\ UNCHANGED <<wsCount, wsIdToWs, readyState, connections, userToWsId, waitingPlayers,
                   users, matches, matchCount, handlers, elo, spectateRooms>>
    /\ UNCHANGED cancelled

\* case 'webrtc_signal_to_broadcaster'
P6_SignalToBroadcaster(w, roomId) ==
    /\ Receives(w)
    /\ frames' = frames - 1
    /\ sent' = IF HasRoom(roomId)
               THEN Send({}, spectateRooms[roomId].broadcasterWsId,
                         [type |-> "broadcast_signal", from |-> w, signal |-> "signal"])
               ELSE {}
    /\ UNCHANGED <<wsCount, wsIdToWs, readyState, connections, userToWsId, waitingPlayers,
                   users, matches, matchCount, handlers, elo, spectateRooms>>
    /\ UNCHANGED cancelled

\* case 'get_broadcast_list'
P6_GetBroadcastList(w) ==
    /\ Receives(w)
    /\ frames' = frames - 1
    /\ sent' = broadcastListUpdate(spectateRooms, wsIdToWs)
    /\ UNCHANGED <<wsCount, wsIdToWs, readyState, connections, userToWsId, waitingPlayers,
                   users, matches, matchCount, handlers, elo, spectateRooms>>
    /\ UNCHANGED cancelled

NextSpectate6 ==
    \/ \E w \in WsIds : P6_StartBroadcast(w)
    \/ \E w \in WsIds, r \in RoomIds : P6_StopBroadcast(w, r)
    \/ \E w \in WsIds, r \in RoomIds : P6_JoinSpectateRoom(w, r)
    \/ \E w \in WsIds, r \in RoomIds, sp \in WsIds : P6_SignalToSpectator(w, r, sp)
    \/ \E w \in WsIds, r \in RoomIds : P6_SignalToBroadcaster(w, r)
    \/ \E w \in WsIds : P6_GetBroadcastList(w)
    \/ \E w \in WsIds : P6_Logout(w)
    \/ \E w \in WsIds : P6_Close(w)

SpecSpectate6 ==
    InitLoggedIn6(SpectateConns, SpectateSlots, SpectateFrames) /\ [][NextSpectate6]_vars

\* C19: a webrtc_signal_to_spectator frame from connection w for room r and spectator sp
\* delivers something only if w is the broadcaster of r and sp is among r's spectators
C19_OnlyBroadcasterSignalsSpectators ==
    [][\A w \in WsIds, r \in RoomIds, sp \in WsIds :
          (P6_SignalToSpectator(w, r, sp) /\ sent' # {}) =>
             /\ HasRoom(r)
             /\ spectateRooms[r].broadcasterWsId = w
             /\ sp \in spectateRooms[r].spectators]_vars

\* C20: a webrtc_signal_to_broadcaster frame from connection w for room r delivers
\* something only if w is among r's spectators
C20_OnlySpectatorsSignalBroadcaster ==
    [][\A w \in WsIds, r \in RoomIds :
          (P6_SignalToBroadcaster(w, r) /\ sent' # {}) =>
             /\ HasRoom(r)
             /\ w \in spectateRooms[r].spectators]_vars

\* the last step relayed a signal of room r's broadcaster to one of r's spectators
OfferJustSent(r) ==
    \E x \in sent : /\ x[2].type = "broadcast_signal"
                    /\ x[2].from = NoWs
                    /\ x[1] \in spectateRooms[r].spectators

\* C21: when the broadcaster's offer has been relayed in room r, the join_spectate_room
\* of connection w for r sends w a signal carrying that offer in the same step
C21_JoinerReceivesCachedOffer ==
    [][\A w \in WsIds, r \in RoomIds :
          (HasRoom(r) /\ OfferJustSent(r) /\ P6_JoinSpectateRoom(w, r)) =>
             \E y \in sent' :
                /\ y[1] = w
                /\ y[2].type \in {"spectate_signal", "broadcast_signal"}]_vars

\* C22: the broadcaster and every spectator of every room in the registry are live
\* connections
C22_RoomsResolveToLiveConnections ==
    \A r \in DOMAIN spectateRooms :
       HasRoom(r) =>
          /\ spectateRooms[r].broadcasterWsId \in wsIdToWs
          /\ spectateRooms[r].spectators \subseteq wsIdToWs

\* the broadcast_stopped notices among the messages snt
StoppedNotices(snt) == {x \in snt : x[2].type = "broadcast_stopped"}

\* C23: a stop_broadcast frame from connection w for room r removes r and notifies every
\* open spectator of r when w is r's broadcaster; from any other connection or for an
\* unknown room it leaves the registry as it was and notifies nobody; and while no
\* connection closes, a room leaves the registry only by its broadcaster's stop_broadcast
C23_StopOnlyByBroadcaster ==
    [][/\ \A w \in WsIds, r \in RoomIds :
             P6_StopBroadcast(w, r) =>
                IF HasRoom(r) /\ spectateRooms[r].broadcasterWsId = w
                THEN /\ r \in DOMAIN spectateRooms' /\ ~spectateRooms'[r].open
                     /\ \A o \in DOMAIN spectateRooms \ {r} :
                           spectateRooms'[o] = spectateRooms[o]
                     /\ StoppedNotices(sent') =
                           {<<sp, [type |-> "broadcast_stopped", roomId |-> r]>> :
                               sp \in {x \in spectateRooms[r].spectators :
                                          IsOpen(wsIdToWs, readyState, x)}}
                ELSE /\ spectateRooms' = spectateRooms
                     /\ StoppedNotices(sent') = {}
       /\ \A r \in DOMAIN spectateRooms :
             (HasRoom(r) /\ ~spectateRooms'[r].open /\ wsIdToWs' = wsIdToWs) =>
                P6_StopBroadcast(spectateRooms[r].broadcasterWsId, r)]_vars

\* room 1 has just been stopped by its broadcaster, no connection has closed, and a
\* spectator has been told broadcast_stopped
C23_SpectatorToldOfStop ==
    /\ 1 \in DOMAIN spectateRooms
    /\ ~spectateRooms[1].open
    /\ wsIdToWs = WsIds
    /\ \E x \in StoppedNotices(sent) : x[2].roomId = 1

\* C24: every room in the registry whose broadcaster is still connected has a
\* broadcaster whose session is logged in
C24_RoomOnlyWhileLoggedIn ==
    \A r \in DOMAIN spectateRooms :
       (HasRoom(r) /\ spectateRooms[r].broadcasterWsId \in wsIdToWs) =>
          connections[spectateRooms[r].broadcasterWsId].userId # NoUser

\* the roomIds of the rooms in the registry
OpenRooms(rooms) == {r \in DOMAIN rooms : rooms[r].open}

\* C25: a step that adds a room to the registry or removes one sends every connection that
\* is open after the step a broadcast_list_update listing the registry as the step leaves
\* it, each room with the broadcaster name stored at its creation
C25_ListPushedOnRegistryChange ==
    [][OpenRooms(spectateRooms') # OpenRooms(spectateRooms) =>
          \A c \in wsIdToWs' :
             <<c, [type |-> "broadcast_list_update",
                   list |-> BroadcastList(spectateRooms')]>> \in sent']_vars

\* room 1 has just been destroyed while room 2 lives on: a connection that is not logged
\* in has been sent the list naming room 2 only
C25_ListAfterDestruction ==
    /\ 2 \in DOMAIN spectateRooms
    /\ ~spectateRooms[1].open /\ spectateRooms[2].open
    /\ \E c \in wsIdToWs :
          /\ connections[c].userId = NoUser
          /\ <<c, [type |-> "broadcast_list_update",
                   list |-> {[roomId |-> 2,
                              broadcasterUsername |-> spectateRooms[2].broadcasterUsername]}]>>
                \in sent

\* connection w receives a frame of a type that asks for a logged-in session
AuthRequiredFrame(w) ==
    \/ P6_Logout(w)
    \/ P6_JoinQueue(w)
    \/ P6_LeaveQueue(w)
    \/ P6_WebrtcSignal(w)
    \/ P6_StartBroadcast(w)
    \/ \E r \in RoomIds : P6_StopBroadcast(w, r)
    \/ \E m \in 1..MaxMatches, r \in Results : P6_ReportResult(w, m, r)

\* C26: such a frame on a connection that is not logged in is answered with a message of
\* type error and changes neither the queue, the matches, the rooms nor the session table
C26_UnboundFrameGetsError ==
    [][\A w \in WsIds :
          (connections[w].userId = NoUser /\ AuthRequiredFrame(w)) =>
             /\ \E x \in sent' : x[1] = w /\ x[2].type = "error"
             /\ UNCHANGED <<waitingPlayers, matches, spectateRooms, connections,
                            userToWsId>>]_vars

----------------------------------------------------------------------------
(* part_006: register and change_username *)

\* the login names a frame may ask for
NewNames == {"al", "bob", "dana", "averyveryverylongname"}

\* the user ids uuidv4() mints for new users
NewUserIds == {"new1", "new2"}

\* the users table keeps usernames unique (users_username_key): a row other than
\* `except` already has the name
UsernameTaken(name, except) ==
    \E u \in DOMAIN users \ {except} : users[u].username = name

\* case 'register': up to the first await (getUserIdByUsername)
P6_Register(w, regUsername) ==
    /\ Receives(w)
    /\ frames' = frames - 1 /\ HasFreeSlot
    /\ handlers' = Spawn([type |-> "register", ws |-> w, pc |-> "getUserIdByUsername",
                          regUsername |-> regUsername])
    /\ sent' = {}
    /\ UNCHANGED <<wsCount, wsIdToWs, readyState, connections, userToWsId, waitingPlayers,
                   users, matches, matchCount, elo, spectateRooms>>
    /\ UNCHANGED cancelled

\* the register handler resumes after an await
P6_RegisterStep(s) ==
    LET h == handlers[s] IN
    /\ h.type = "register"
    /\ \/ /\ h.pc = "getUserIdByUsername"
          /\ IF getUserIdByUsername(h.regUsername) # NoUser
             THEN /\ sent' = Send({}, h.ws, [type |-> "register_response",
                                             success |-> FALSE])
                  /\ handlers' = Finish(s)
             ELSE /\ sent' = {}
                  /\ handlers' = Goto(s, [h EXCEPT !.pc = "hash"])
          /\ UNCHANGED users
       \/ /\ h.pc = "hash"
          /\ \E id \in NewUserIds : id \notin DOMAIN users
          /\ handlers' = Goto(s, [h EXCEPT !.pc = "registerNewUser"] @@
                                 [newUserId |-> CHOOSE id \in NewUserIds :
                                                   id \notin DOMAIN users])
          /\ sent' = {}
          /\ UNCHANGED users
       \/ /\ h.pc = "registerNewUser"
          /\ IF UsernameTaken(h.regUsername, NoUser) \/ h.newUserId \in DOMAIN users
             THEN /\ sent' = Send({}, h.ws, [type |-> "register_response",
                                             success |-> FALSE])
                  /\ UNCHANGED users
             ELSE /\ users' = users @@
                        (h.newUserId :> [UserRow(h.newUserId, InitialRate)
                                            EXCEPT !.username = h.regUsername])
                  /\ sent' = Send({}, h.ws, [type |-> "register_response",
                                             success |-> TRUE])
          /\ handlers' = Finish(s)
    /\ UNCHANGED <<wsCount, wsIdToWs, readyState, connections, userToWsId, waitingPlayers,
                   matches, matchCount, frames, elo, spectateRooms>>
    /\ UNCHANGED cancelled

\* case 'change_username': up to the first await (select by username)
P6_ChangeUsername(w, newUsername) ==
    /\ Receives(w)
    /\ frames' = frames - 1
    /\ IF connections[w].userId = NoUser
       THEN /\ sent' = Send({}, w, [type |-> "error"])
            /\ UNCHANGED handlers
       ELSE IF Len(newUsername) < 3 \/ Len(newUsername) > 15
       THEN /\ sent' = Send({}, w, [type |-> "change_username_response",
                                    success |-> FALSE])
            /\ UNCHANGED handlers
       ELSE /\ HasFreeSlot
            /\ handlers' = Spawn([type |-> "change_username", ws |-> w, pc |-> "select",
                                  newUsername |-> newUsername])
            /\ sent' = {}
    /\ UNCHANGED <<wsCount, wsIdToWs, readyState, connections, userToWsId, waitingPlayers,
                   users, matches, matchCount, elo, spectateRooms>>
    /\ UNCHANGED cancelled

\* the change_username handler resumes after an await; conn.userId is read anew
P6_ChangeUsernameStep(s) ==
    LET h == handlers[s]
        userId == connections[h.ws].userId
    IN
    /\ h.type = "change_username"
    /\ \/ /\ h.pc = "select"
          /\ LET existingUser == getUserIdByUsername(h.newUsername) IN
             IF existingUser # NoUser /\ existingUser # userId
             THEN /\ sent' = Send({}, h.ws, [type |-> "change_username_response",
                                             success |-> FALSE])
                  /\ handlers' = Finish(s)
             ELSE /\ sent' = {}
                  /\ handlers' = Goto(s, [h EXCEPT !.pc = "update"])
          /\ UNCHANGED <<users, connections>>
       \/ /\ h.pc = "update"
          \* the error of the update is not looked at
          /\ users' = IF userId \in DOMAIN users /\ ~UsernameTaken(h.newUsername, userId)
                      THEN [users EXCEPT ![userId].username = h.newUsername]
                      ELSE users
          /\ connections' = [connections EXCEPT ![h.ws].username = h.newUsername]
          /\ sent' = Send({}, h.ws, [type |-> "change_username_response",
                                     success |-> TRUE, newUsername |-> h.newUsername])
          /\ handlers' = Finish(s)
    /\ UNCHANGED <<wsCount, wsIdToWs, readyState, userToWsId, waitingPlayers,
                   matches, matchCount, frames, elo, spectateRooms>>
    /\ UNCHANGED cancelled

NextNames6 ==
    \/ \E w \in WsIds, n \in NewNames : P6_Register(w, n)
    \/ \E w \in WsIds, n \in NewNames : P6_ChangeUsername(w, n)
    \/ \E w \in WsIds : P6_Logout(w)
    \/ \E s \in Slots : P6_RegisterStep(s)
    \/ \E s \in Slots : P6_ChangeUsernameStep(s)

SpecNames6 == InitLoggedIn6(NumConns, NamesSlots, NamesFrames) /\ [][NextNames6]_vars

\* C27: every stored user has a login name of 3 to 15 characters and no two stored users
\* have the same login name
C27_NamesValidAndUnique ==
    /\ \A u \in DOMAIN users :
          Len(users[u].username) >= 3 /\ Len(users[u].username) <= 15
    /\ \A u, v \in DOMAIN users : users[u].username = users[v].username => u = v

----------------------------------------------------------------------------
(* part_006: update_user_data *)

\* the keys of the frame that updateUserData() looks at
PatchFields ==
    {"rate", "matchHistory", "memos", "battleRecords", "registeredDecks", "currentMatchId"}

\* the column each key is written to
Column ==
    [rate |-> "rate", matchHistory |-> "match_history", memos |-> "memos",
     battleRecords |-> "battle_records", registeredDecks |-> "registered_decks",
     currentMatchId |-> "current_match_id"]

\* the value a frame carries under each key
PatchValue ==
    [rate |-> InitialRate + K, matchHistory |-> <<"played">>, memos |-> <<"memo">>,
     battleRecords |-> <<"record">>, registeredDecks |-> <<"deck">>,
     currentMatchId |-> NoMatch + 1]

\* the frames: any subset of the keys present
Patches == {[f \in present |-> PatchValue[f]] : present \in SUBSET PatchFields}

\* a users row with all its columns, as registerNewUser() inserts it
FullUserRow(u) ==
    [user_id |-> u, username |-> u, password_hash |-> "hash", rate |-> InitialRate,
     match_history |-> << >>, memos |-> << >>, battle_records |-> << >>,
     registered_decks |-> << >>, current_match_id |-> NoMatch]

\* the update written over every column instead of the columns of the keys present;
\* C28 does not hold of it
updateUserDataAllColumns(row, updatePayload) ==
    [c \in DOMAIN row |->
        IF \E f \in DOMAIN updatePayload : Column[f] = c
        THEN updatePayload[CHOOSE f \in DOMAIN updatePayload : Column[f] = c]
        ELSE IF c \in {Column[f] : f \in PatchFields} THEN FullUserRow(row.user_id)[c]
        ELSE row[c]]

\* updateUserData(): the row after update(updateObject)
updateUserData(row, updatePayload) ==
    [c \in DOMAIN row |->
        IF \E f \in DOMAIN updatePayload : Column[f] = c
        THEN updatePayload[CHOOSE f \in DOMAIN updatePayload : Column[f] = c]
        ELSE row[c]]

\* case 'update_user_data': up to the first await; with no key present
\* updateUserData() returns before its store call
P6_UpdateUserData(w, data) ==
    /\ Receives(w)
    /\ frames' = frames - 1
    /\ IF connections[w].userId = NoUser
       THEN /\ sent' = Send({}, w, [type |-> "error"])
            /\ UNCHANGED handlers
       ELSE /\ HasFreeSlot
            /\ handlers' = Spawn([type |-> "update_user_data", ws |-> w,
                                  pc |-> IF DOMAIN data = {} THEN "getUserData"
                                         ELSE "updateUserData",
                                  userId |-> connections[w].userId, data |-> data])
            /\ sent' = {}
    /\ UNCHANGED <<wsCount, wsIdToWs, readyState, connections, userToWsId, waitingPlayers,
                   users, matches, matchCount, elo, spectateRooms>>
    /\ UNCHANGED cancelled

\* the update_user_data handler resumes after an await
P6_UpdateUserDataStep(s) ==
    LET h == handlers[s] IN
    /\ h.type = "update_user_data"
    /\ \/ /\ h.pc = "updateUserData"
          /\ users' = [users EXCEPT ![h.userId] = updateUserData(@, h.data)]
          /\ handlers' = Goto(s, [h EXCEPT !.pc = "getUserData"])
          /\ sent' = {}
       \/ /\ h.pc = "updateUserData"
          \* the store reports an error: updateUserData() throws
          /\ sent' = Send({}, h.ws, [type |-> "update_user_data_response",
                                     success |-> FALSE])
          /\ handlers' = Finish(s)
          /\ UNCHANGED users
       \/ /\ h.pc = "getUserData"
          /\ sent' = Send({}, h.ws,
                          [type |-> "update_user_data_response", success |-> TRUE,
                           userData |-> IF connections[h.ws].userId \in DOMAIN users
                                        THEN users[connections[h.ws].userId]
                                        ELSE << >>])
          /\ handlers' = Finish(s)
          /\ UNCHANGED users
    /\ UNCHANGED <<wsCount, wsIdToWs, readyState, connections, userToWsId, waitingPlayers,
                   matches, matchCount, frames, elo, spectateRooms>>
    /\ UNCHANGED cancelled

\* every connection is logged in and every user has a full row
InitProfile6(conns, slots, budget) ==
    /\ wsCount = conns
    /\ wsIdToWs = 1..conns
    /\ readyState = [w \in 1..conns |-> "OPEN"]
    /\ connections = [w \in 1..conns |->
                        [BlankSession EXCEPT !.userId = UserOn(w), !.username = UserOn(w)]]
    /\ userToWsId = [u \in Users |->
                       IF \E w \in 1..conns : UserOn(w) = u
                       THEN CHOOSE w \in 1..conns : UserOn(w) = u ELSE NoWs]
    /\ waitingPlayers = << >>
    /\ handlers = [s \in 1..slots |-> Idle]
    /\ sent = {}
    /\ frames = budget
    /\ spectateRooms = << >>
    /\ cancelled = {}
    /\ users = [u \in Users |-> FullUserRow(u)]
    /\ matches = << >>
    /\ matchCount = 0
    /\ elo = NoElo

NextProfile6 ==
    \/ \E w \in WsIds, data \in Patches : P6_UpdateUserData(w, data)
    \/ \E w \in WsIds : P6_Logout(w)
    \/ \E s \in Slots : P6_UpdateUserDataStep(s)

SpecProfile6 == InitProfile6(NumConns, ProfileSlots, ProfileFrames) /\ [][NextProfile6]_vars

\* C28: a step of an update_user_data handler leaves every other user's row as it was;
\* in the handler's own row a column changes only if its key is in the frame, and then to
\* the frame's value; when the store write is done every key present has been written;
\* with no key present the row is unchanged and the reply is success
C28_PatchTouchesOnlyPresentFields ==
    [][\A s \in Slots :
          (handlers[s].type = "update_user_data" /\ handlers'[s] # handlers[s]) =>
             LET h == handlers[s] IN
             /\ \A u \in DOMAIN users \ {h.userId} : users'[u] = users[u]
             /\ \A c \in DOMAIN users[h.userId] :
                   users'[h.userId][c] # users[h.userId][c] =>
                      \E f \in DOMAIN h.data :
                         Column[f] = c /\ users'[h.userId][c] = h.data[f]
             /\ (h.pc = "updateUserData" /\ handlers'[s] # Idle) =>
                   \A f \in DOMAIN h.data : users'[h.userId][Column[f]] = h.data[f]
             /\ DOMAIN h.data = {} =>
                   /\ users' = users
                   /\ \A x \in sent' : x[2].type = "update_user_data_response"
                                       /\ x[2].success
                   /\ IsOpen(wsIdToWs, readyState, h.ws) => sent' # {}]_vars

\* alice's frame carried memos only: her memos are written, her rate, name and password
\* verifier are as before, and she has been answered success
C28_OnlyMemosWritten ==
    /\ users["alice"].memos = PatchValue.memos
    /\ users["alice"].rate = InitialRate
    /\ users["alice"].username = "alice"
    /\ users["alice"].password_hash = "hash"
    /\ users["alice"].registered_decks = << >>
    /\ \E x \in sent : /\ x[1] = userToWsId["alice"]
                       /\ x[2].type = "update_user_data_response"
                       /\ x[2].success

\* C29: a reply with result = pending goes to a reporter whose report is in the match
\* row after the step, and the step changes no user's row
C29_PendingOnlyAfterWrite ==
    [][\A x \in sent' :
          (/\ x[2].type = "report_result_response"
           /\ "result" \in DOMAIN x[2]
           /\ x[2].result = "pending") =>
             /\ users' = users
             /\ \E s \in Slots :
                   /\ handlers[s].type = "report_result"
                   /\ handlers[s].ws = x[1]
                   /\ handlers'[s] = Idle
                   /\ LET row == matches'[handlers[s].reportedMatchId] IN
                      IF handlers[s].reporterIsPlayer1
                      THEN row.player1_report # NoReport
                      ELSE row.player2_report # NoReport]_vars

\* C30: a match_found message for match m is backed by a match row m with the two players
\* and null reports, both users' current_match_id is m, and the other player is sent
\* match_found for m in the same step
C30_MatchFoundBackedByStore ==
    \A x \in sent :
        x[2].type = "match_found" =>
            LET m == x[2].matchId IN
            /\ m \in DOMAIN matches
            /\ matches[m].player1_report = NoReport
            /\ matches[m].player2_report = NoReport
            /\ x[2].opponentUserId \in {matches[m].player1_id, matches[m].player2_id}
            /\ users[matches[m].player1_id].current_match_id = m
            /\ users[matches[m].player2_id].current_match_id = m
            /\ \E y \in sent : /\ y[1] # x[1]
                               /\ y[2].type = "match_found"
                               /\ y[2].matchId = m
                               /\ y[2].opponentUserId # x[2].opponentUserId

\* the queue entry resolves to an open connection that has a session bound
ResolvesBound(u) ==
    /\ IsOpen(wsIdToWs, readyState, userToWsId[u])
    /\ connections[userToWsId[u]].userId # NoUser

\* a pairing attempt leaves the queue as qAfter and creates no match
NoMatchAndQueue(qAfter) ==
    /\ waitingPlayers' = qAfter
    /\ matchCount' = matchCount
    /\ handlers' = handlers

\* C31: in a pairing attempt where exactly one popped entry resolves to an open bound
\* connection no match is created and the queue becomes the live user followed by the
\* entries behind the pair; where neither resolves the queue becomes those entries
C31_DeadEntryDiscarded ==
    [][\A w \in WsIds :
          (/\ P6_JoinQueue(w)
           /\ connections[w].userId # NoUser
           /\ ~Includes(waitingPlayers, connections[w].userId)
           /\ Len(waitingPlayers) >= 1) =>
             LET q == Append(waitingPlayers, connections[w].userId)
                 rest == SubSeq(q, 3, Len(q))
             IN  /\ (ResolvesBound(q[1]) /\ ~ResolvesBound(q[2])) =>
                        NoMatchAndQueue(<<q[1]>> \o rest)
                 /\ (~ResolvesBound(q[1]) /\ ResolvesBound(q[2])) =>
                        NoMatchAndQueue(<<q[2]>> \o rest)
                 /\ (~ResolvesBound(q[1]) /\ ~ResolvesBound(q[2])) =>
                        NoMatchAndQueue(rest)]_vars

\* a login or auto_login received on connection w is still suspended at an await
LoginInFlightOn(w) ==
    \E s \in Slots : /\ handlers[s].type \in {"login", "auto_login"}
                     /\ handlers[s].ws = w

\* C32: a join_queue frame is handled only after the handler of every earlier frame of
\* its connection has finished, so never while a login of that connection is suspended
C32_FramesHandledInArrivalOrder ==
    [][\A w \in WsIds : P6_JoinQueue(w) => ~LoginInFlightOn(w)]_vars

----------------------------------------------------------------------------
(* part_001: login, logout and close *)

\* case 'login': up to the first await (getUserIdByUsername)
P1_Login(w, loginUsername, passwordOk) ==
    /\ Receives(w) /\ HasFreeSlot
    /\ frames' = frames - 1
    /\ handlers' = Spawn([type |-> "login", ws |-> w, pc |-> "getUserIdByUsername",
                          loginUsername |-> loginUsername, passwordOk |-> passwordOk])
    /\ sent' = {}
    /\ UNCHANGED <<wsCount, wsIdToWs, readyState, connections, userToWsId, waitingPlayers,
                   users, matches, matchCount, elo>>
    /\ UNCHANGED <<spectateRooms, cancelled>>

\* the login handler resumes after an await; senderInfo is the object read from
\* activeConnections when the frame arrived
P1_LoginStep(s) ==
    LET h == handlers[s]
        w == h.ws
    IN
    /\ h.type = "login"
    /\ \/ /\ h.pc = "getUserIdByUsername"
          /\ LET userIdFromUsername == getUserIdByUsername(h.loginUsername) IN
             IF userIdFromUsername = NoUser THEN LoginFailed(s)
             ELSE /\ handlers' = Goto(s, [h EXCEPT !.pc = "getUserData"] @@
                                         [userIdFromUsername |-> userIdFromUsername])
                  /\ sent' = {}
                  /\ UNCHANGED <<connections, userToWsId>>
       \/ /\ h.pc = "getUserData"
          /\ handlers' = Goto(s, [h EXCEPT !.pc = "compare"] @@
                                 [storedUserData |-> getUserData(h.userIdFromUsername)])
          /\ sent' = {}
          /\ UNCHANGED <<connections, userToWsId>>
       \/ /\ h.pc = "compare"
          /\ LET existingWsIdForUser == userToWsId[h.storedUserData.user_id] IN
             IF ~h.passwordOk THEN LoginFailed(s)
             ELSE IF existingWsIdForUser # NoWs /\ existingWsIdForUser # w
             THEN /\ sent' = Send({}, w, [type |-> "login_response", success |-> FALSE,
                                          message |-> "already logged in"])
                  /\ handlers' = Finish(s)
                  /\ UNCHANGED <<connections, userToWsId>>
             ELSE /\ connections' = [connections EXCEPT ![w].userId = h.storedUserData.user_id]
                  /\ userToWsId' = [userToWsId EXCEPT ![h.storedUserData.user_id] = w]
                  /\ sent' = Send({}, w, Profile("login_response", h.storedUserData))
                  /\ handlers' = Finish(s)
    /\ UNCHANGED <<wsCount, wsIdToWs, readyState, waitingPlayers, users, matches,
                   matchCount, frames, elo>>
    /\ UNCHANGED <<spectateRooms, cancelled>>

\* case 'logout'
P1_Logout(w) ==
    /\ Receives(w)
    /\ frames' = frames - 1
    /\ IF connections[w].userId # NoUser
       THEN /\ userToWsId' = [userToWsId EXCEPT ![connections[w].userId] = NoWs]
            /\ connections' = [connections EXCEPT ![w].userId = NoUser]
            /\ sent' = Send({}, w, [type |-> "logout_response", success |-> TRUE])
       ELSE /\ sent' = Send({}, w, [type |-> "logout_response", success |-> FALSE])
            /\ UNCHANGED <<userToWsId, connections>>
    /\ UNCHANGED <<wsCount, wsIdToWs, readyState, waitingPlayers, users, matches,
                   matchCount, handlers, elo>>
    /\ UNCHANGED <<spectateRooms, cancelled>>

\* Session table of part_001: login, logout and close, handlers interleaving
NextLogin1 ==
    \/ P1_Connection
    \/ \E w \in WsIds, u \in Reporters, ok \in BOOLEAN : P1_Login(w, u, ok)
    \/ \E w \in WsIds : P1_Logout(w)
    \/ \E w \in WsIds : P1_Close(w)
    \/ \E s \in Slots : P1_LoginStep(s)

SpecLogin1 == Init1(LoginSlots, LoginFrames) /\ [][NextLogin1]_vars

\* C33: every userToWsId entry names a connection that is still in wsIdToWs and whose
\* session is bound to that user
C33_UserMapNamesLiveBoundConnection ==
    \A u \in Users :
        userToWsId[u] # NoWs =>
            /\ userToWsId[u] \in wsIdToWs
            /\ connections[userToWsId[u]].userId = u

\* no live connection has a session bound to user u
NoLiveSessionOf(u) == \A w \in wsIdToWs : connections[w].userId # u

\* C37: a login with valid credentials that completes on a live connection without a
\* session, while no live connection is bound to its user, binds that user
C37_ValidLoginNotLockedOut ==
    [][\A s \in Slots :
          (/\ P1_LoginStep(s)
           /\ handlers[s].type = "login"
           /\ handlers[s].pc = "compare"
           /\ handlers[s].passwordOk
           /\ handlers[s].ws \in wsIdToWs
           /\ connections[handlers[s].ws].userId = NoUser
           /\ NoLiveSessionOf(handlers[s].storedUserData.user_id)) =>
             connections'[handlers[s].ws].userId = handlers[s].storedUserData.user_id]_vars

\* C35: a user who was sent the leave_queue acknowledgement and has not sent join_queue
\* since is not made a player of a new match and is not sent match_found
C35_NoMatchAfterLeaving ==
    [][/\ \A m \in DOMAIN matches' \ DOMAIN matches :
             {matches'[m].player1_id, matches'[m].player2_id} \cap cancelled = {}
       /\ \A x \in sent' :
             x[2].type = "match_found" => connections[x[1]].userId \notin cancelled]_vars

\* C34: a logout on connection w leaves every userToWsId entry that names another
\* connection as it is
C34_LogoutKeepsOtherConnectionsEntry ==
    [][\A w \in WsIds, u \in Users :
          (P6_Logout(w) /\ userToWsId[u] \notin {NoWs, w}) =>
              userToWsId'[u] = userToWsId[u]]_vars

\* C36: when the session of a live connection a names a live connection b as its
\* opponent, the session of b names a as its opponent and carries the same matchId
C36_OpponentPointersSymmetric ==
    \A a \in wsIdToWs :
        LET b == connections[a].opponentWsId IN
        (b # NoWs /\ b \in wsIdToWs) =>
            /\ connections[b].opponentWsId = a
            /\ connections[b].matchId = connections[a].matchId

\* C38: when the insert of the match row fails, both players are back at the head of the
\* queue in their order, no match_found is sent, and neither user's stored
\* current_match_id is the id of the attempt
C38_FailedInsertLeavesNoTrace ==
    [][\A s \in Slots :
          (/\ P1_tryMatchPlayersStep(s)
           /\ handlers[s].type = "tryMatchPlayers"
           /\ handlers[s].pc = "insert"
           /\ handlers[s].matchId \notin DOMAIN matches') =>
             /\ waitingPlayers' = <<handlers[s].player1Id, handlers[s].player2Id>> \o
                                  waitingPlayers
             /\ \A x \in sent' : x[2].type # "match_found"
             /\ users'[handlers[s].player1Id].current_match_id # handlers[s].matchId
             /\ users'[handlers[s].player2Id].current_match_id # handlers[s].matchId]_vars

\* C39: when the change_username handler answers success, the stored login name of the
\* user of its connection is newUsername after that step
C39_SuccessOnlyIfNameStored ==
    [][\A s \in Slots :
          (/\ P6_ChangeUsernameStep(s)
           /\ handlers[s].type = "change_username"
           /\ \E x \in sent' : /\ x[2].type = "change_username_response"
                               /\ x[2].success) =>
             LET userId == connections[handlers[s].ws].userId IN
             /\ userId \in DOMAIN users'
             /\ users'[userId].username = handlers[s].newUsername]_vars

\* C40: the two players of every match row are different users, and the two match_found
\* messages of a match go to two different connections
C40_NoSelfPairing ==
    /\ \A m \in DOMAIN matches : matches[m].player1_id # matches[m].player2_id
    /\ \A x, y \in sent :
          (/\ x # y
           /\ x[2].type = "match_found"
           /\ y[2].type = "match_found"
           /\ x[2].matchId = y[2].matchId) => x[1] # y[1]

====
